---- MODULE Spec2Model ----
(***************************************************************************)
(* HarmoniqSync core: feature extraction, cross-correlation alignment,     *)
(* confidence scoring, hybrid fusion, batch processing and the C bridge.   *)
(*                                                                         *)
(* Floating point values are modelled as fixed-point integers with scale   *)
(* Q (1.0 == Q), every operation rounding to the nearest unit.  The        *)
(* analysis window of the model is WindowSize4 samples, for which the DFT  *)
(* twiddle factors are 0, 1 and -1 and the Hann window is <<0, 3/4, 3/4,   *)
(* 0>>.                                                                    *)
(***************************************************************************)
EXTENDS Integers, Sequences, FiniteSets

\* ------------------------------------------------------------------ bounds
Q == 1000
MaxLen == 9
MaxTargets == 2

\* --------------------------------------------------------- fixed-point math
Abs(x) == IF x < 0 THEN -x ELSE x
Min(a, b) == IF b < a THEN b ELSE a
Max(a, b) == IF a < b THEN b ELSE a

\* a / b rounded to the nearest integer (b > 0)
RDiv(a, b) == IF a >= 0 THEN (2 * a + b) \div (2 * b)
              ELSE -((2 * (-a) + b) \div (2 * b))

\* a * b / c without leaving the 32-bit range (c > 0, |b| * c < 2^31)
MulDiv(a, b, c) ==
    LET s  == IF (a < 0) = (b < 0) THEN 1 ELSE -1
        aa == Abs(a)
        bb == Abs(b)
    IN  s * ((aa \div c) * bb + RDiv((aa % c) * bb, c))

FMul(a, b) == MulDiv(a, b, Q)

\* largest quotient the fixed-point range can hold (1,000,000.0)
RatioCap == 1000000000

\* a / b on fixed-point values (b # 0), saturating at RatioCap
FDiv(a, b) ==
    LET s == IF (a < 0) = (b < 0) THEN 1 ELSE -1
    IN  IF Abs(a) \div Abs(b) >= 1000000 THEN s * RatioCap
        ELSE IF Abs(a) < 2000000 THEN s * RDiv(Abs(a) * Q, Abs(b))
        ELSE s * Min(RatioCap, (Abs(a) \div Abs(b)) * Q + RDiv((Abs(a) % Abs(b)) * Q, Abs(b)))

RECURSIVE SqrtIter(_, _, _)
SqrtIter(v, lo, hi) ==
    IF lo >= hi THEN lo
    ELSE LET mid == (lo + hi + 1) \div 2
         IN  IF mid * mid <= v THEN SqrtIter(v, mid, hi) ELSE SqrtIter(v, lo, mid - 1)

\* floor(sqrt(v)) of a natural number
ISqrt(v) == SqrtIter(v, 0, Min(v, 46340))

\* std::sqrt on a fixed-point value
FSqrt(x) == IF x <= 0 THEN 0
            ELSE IF x < 2000000 THEN ISqrt(x * Q)
            ELSE 100 * ISqrt(x \div 10)

Ln2 == 693
Ln10 == 2303

RECURSIVE ExpSeries(_, _, _, _)
ExpSeries(r, term, n, acc) ==
    IF term = 0 \/ n > 12 THEN acc
    ELSE LET t == RDiv(term * r, Q * n)
         IN  ExpSeries(r, t, n + 1, acc + t)

RECURSIVE Pow2Times(_, _)
Pow2Times(k, x) == IF k = 0 THEN x ELSE Pow2Times(k - 1, 2 * x)

\* std::exp for 0 <= x <= 14.0
FExp(x) ==
    LET k == x \div Ln2
        r == x - k * Ln2
    IN  Pow2Times(k, ExpSeries(r, Q, 1, Q))

RECURSIVE LnReduce(_, _)
LnReduce(x, k) ==
    IF x >= 2 * Q THEN LnReduce(RDiv(x, 2), k + 1)
    ELSE IF x < Q THEN LnReduce(2 * x, k - 1)
    ELSE <<x, k>>

\* std::log for x > 0
FLn(x) ==
    LET mk == LnReduce(x, 0)
        m  == mk[1]
        z  == RDiv((m - Q) * Q, m + Q)
        z2 == FMul(z, z)
        z3 == FMul(z2, z)
        z5 == FMul(z3, z2)
        z7 == FMul(z5, z2)
    IN  mk[2] * Ln2 + 2 * (z + RDiv(z3, 3) + RDiv(z5, 5) + RDiv(z7, 7))

FLog10(x) == RDiv(FLn(x) * Q, Ln10)

\* std::tanh for x >= 0
FTanh(x) ==
    IF x >= 5000 THEN Q
    ELSE LET e == FExp(2 * x)
         IN  Q - RDiv(2 * Q * Q, e + Q)

\* -------------------------------------------------------- sequence helpers
RECURSIVE SumSeq(_)
SumSeq(s) == IF s = <<>> THEN 0 ELSE Head(s) + SumSeq(Tail(s))

RECURSIVE InsertSorted(_, _)
InsertSorted(x, s) ==
    IF s = <<>> THEN <<x>>
    ELSE IF x <= Head(s) THEN <<x>> \o s
    ELSE <<Head(s)>> \o InsertSorted(x, Tail(s))

RECURSIVE sortAscending(_)
\* std::sort, ascending
sortAscending(s) == IF s = <<>> THEN <<>> ELSE InsertSorted(Head(s), sortAscending(Tail(s)))

SeqMax(s) == CHOOSE x \in {s[i] : i \in 1..Len(s)} : \A i \in 1..Len(s) : s[i] <= x
SeqMin(s) == CHOOSE x \in {s[i] : i \in 1..Len(s)} : \A i \in 1..Len(s) : x <= s[i]

\* ----------------------------------------------------------- AudioProcessor
\* A default-constructed container: no samples, sample rate 0.
EmptyProcessor == [audioData |-> <<>>, sampleRate |-> 0]

isValid(p) == Len(p.audioData) > 0 /\ p.sampleRate > 0
getLength(p) == Len(p.audioData)

\* buf = [null |-> the pointer is null, data |-> the samples behind it]
loadAudio(p, buf, inputSampleRate) ==
    IF buf.null \/ Len(buf.data) = 0 \/ inputSampleRate <= 0
    THEN [ok |-> FALSE, proc |-> p]
    ELSE [ok |-> TRUE, proc |-> [audioData |-> buf.data, sampleRate |-> inputSampleRate]]

\* Hann window of the model's window length 4: 0.5 * (1 - cos(2 pi n / 3))
hannWindow == <<0, 750, 750, 0>>

\* data[i] *= windowFunction[i]
applyWindow(data, windowFunction) ==
    [n \in 1..Len(data) |-> FMul(data[n], windowFunction[n])]

applyHannWindow(data) == applyWindow(data, hannWindow)

\* cos and sin of (pi / 2) * m, the twiddle factors of a 4-point DFT
CosQuarter(m) == <<1, 0, -1, 0>>[(m % 4) + 1]
SinQuarter(m) == <<0, 1, 0, -1>>[(m % 4) + 1]

\* magnitude of bin k of the DFT of an already windowed buffer
dftMagnitude(workingBuffer, k) ==
    LET N    == Len(workingBuffer)
        real == SumSeq([n \in 1..N |-> workingBuffer[n] * CosQuarter(k * (n - 1))])
        imag == SumSeq([n \in 1..N |-> -(workingBuffer[n] * SinQuarter(k * (n - 1)))])
    IN  ISqrt(real * real + imag * imag)

\* the DFT loop of computeFFT over the windowed working buffer
dftOf(workingBuffer) ==
    [k \in 1..(Len(workingBuffer) \div 2 + 1) |-> dftMagnitude(workingBuffer, k - 1)]

\* magnitude spectrum of one frame: inputLength / 2 + 1 bins
computeFFT(input) == dftOf(applyHannWindow(input))

\* spectral flux between two consecutive magnitude spectra, DC bin skipped
fluxBetween(magnitude, prevMagnitude) ==
    SumSeq([i \in 1..(Min(Len(magnitude), Len(prevMagnitude)) - 1) |->
               Max(0, magnitude[i + 1] - prevMagnitude[i + 1])])

\* median filter; the outer filterSize / 2 samples stay as they are
smoothFeatures(features, filterSize) ==
    IF Len(features) < 3 \/ filterSize < 3 THEN features
    ELSE LET halfSize == filterSize \div 2
         IN  [i \in 1..Len(features) |->
                IF i - 1 >= halfSize /\ i - 1 < Len(features) - halfSize
                THEN LET window == sortAscending(SubSeq(features, i - halfSize, i + halfSize))
                     IN  window[Len(window) \div 2 + 1]
                ELSE features[i]]

\* stand-in for 2^64, the modulus of size_t arithmetic
SizeModulus == 1073741824

\* features.size() - halfSize, the bound of the loop of smoothFeatures, in size_t
smoothLoopEnd(size, halfSize) == (size - halfSize) % SizeModulus

\* the indices (0-based) of features that smoothFeatures reads; when the loop bound
\* wraps, those of its first size + 1 iterations
smoothReads(size, filterSize) ==
    IF size < 3 \/ filterSize < 3 THEN {}
    ELSE LET halfSize == filterSize \div 2
         IN  {i + j : i \in halfSize..Min(smoothLoopEnd(size, halfSize) - 1, size + halfSize),
                      j \in (-halfSize)..halfSize}

\* the start positions of the analysis windows: for (pos = 0; pos + windowSize <= size; pos += hopSize)
RECURSIVE framePositions(_, _, _, _)
framePositions(pos, windowSize, hopSize, size) ==
    IF pos + windowSize <= size
    THEN <<pos>> \o framePositions(pos + hopSize, windowSize, hopSize, size)
    ELSE <<>>

frameAt(p, pos, windowSize) == SubSeq(p.audioData, pos + 1, pos + windowSize)

\* magnitude spectra of all frames of a clip
spectra(p, windowSize, hop) ==
    LET ps == framePositions(0, windowSize, hop, Len(p.audioData))
    IN  [t \in 1..Len(ps) |-> computeFFT(frameAt(p, ps[t], windowSize))]

extractSpectralFlux(p, windowSize, hopSize) ==
    IF ~isValid(p) THEN <<>>
    ELSE LET hop == IF hopSize <= 0 THEN windowSize \div 4 ELSE hopSize
             mags == spectra(p, windowSize, hop)
             flux(t) == fluxBetween(mags[t], mags[t - 1])
             spectralFlux == [t \in 1..(Len(mags) - 1) |-> flux(t + 1)]
         IN  smoothFeatures(spectralFlux, 3)

calculateRMSEnergy(data) ==
    IF Len(data) = 0 THEN 0
    ELSE FSqrt(RDiv(SumSeq([i \in 1..Len(data) |-> FMul(data[i], data[i])]), Len(data)))

extractEnergyProfile(p, windowSize, hopSize) ==
    IF ~isValid(p) THEN <<>>
    ELSE LET hop == IF hopSize <= 0 THEN windowSize \div 2 ELSE hopSize
             ps == framePositions(0, windowSize, hop, Len(p.audioData))
             energyProfile == [t \in 1..Len(ps) |-> calculateRMSEnergy(frameAt(p, ps[t], windowSize))]
         IN  smoothFeatures(energyProfile, 5)

\* 12 * log2(freq / 440) + 69 for a fixed-point frequency in Hz; since
\* freq * Q does not fit, freq is carried in Hz * Q / 1000, i.e. plain Hz
midiNote(freqHz) == RDiv(12 * FLn(RDiv(freqHz * Q, 440)) * Q, Ln2) + 69 * Q

\* 12-bin chroma vector of one magnitude spectrum, normalised to sum 1
computeChromaVector(magnitude, sampleRate) ==
    LET size == Len(magnitude)
        freq(i) == (i * sampleRate) \div (2 * (size - 1))
        inRange(i) == (i * sampleRate > 80 * 2 * (size - 1))
                      /\ (i * sampleRate < 2000 * 2 * (size - 1))
        chromaClass(i) == (midiNote(freq(i)) \div Q) % 12
        hits(c) == {i \in 1..(size - 1) :
                      inRange(i) /\ midiNote(freq(i)) >= 0 /\ chromaClass(i) = c}
        RECURSIVE addUp(_)
        addUp(S) == IF S = {} THEN 0
                    ELSE LET i == CHOOSE j \in S : TRUE
                         IN  magnitude[i + 1] + addUp(S \ {i})
        chroma == [c \in 1..12 |-> addUp(hits(c - 1))]
        sum == SumSeq(chroma)
    IN  IF sum > 0 THEN [c \in 1..12 |-> FDiv(chroma[c], sum)] ELSE chroma

RECURSIVE concatAll(_)
concatAll(ss) == IF ss = <<>> THEN <<>> ELSE Head(ss) \o concatAll(Tail(ss))

extractChromaFeatures(p, windowSize, hopSize) ==
    IF ~isValid(p) THEN <<>>
    ELSE LET hop == IF hopSize <= 0 THEN windowSize \div 4 ELSE hopSize
             mags == spectra(p, windowSize, hop)
         IN  concatAll([t \in 1..Len(mags) |-> computeChromaVector(mags[t], p.sampleRate)])

\* ---- mel scale, carried with scale H = 10^6 (values below 40.0) ----
H == 1000000

\* a * b / H for 0 <= a, b < 40 * H
HMul(a, b) ==
    LET a1 == a \div 1000
        a0 == a % 1000
        b1 == b \div 1000
        b0 == b % 1000
    IN  a1 * b1 + RDiv(a1 * b0 + a0 * b1 + RDiv(a0 * b0, 1000), 1000)

RECURSIVE LongDiv(_, _, _)
\* digits base-100 digits of rem / b, for rem < b < 2 * 10^7
LongDiv(rem, b, digits) ==
    IF digits = 0 THEN 0
    ELSE LET d == (rem * 100) \div b
             r == (rem * 100) % b
         IN  d * (IF digits = 3 THEN 10000 ELSE IF digits = 2 THEN 100 ELSE 1)
             + LongDiv(r, b, digits - 1)

\* a * H / b for 0 <= a, 0 < b < 2 * 10^7, a / b < 2000
HDiv(a, b) == (a \div b) * H + LongDiv(a % b, b, 3)

RECURSIVE HLnReduce(_, _)
HLnReduce(x, k) == IF x >= 2 * H THEN HLnReduce(x \div 2, k + 1) ELSE <<x, k>>

\* natural logarithm of x >= 1.0 at scale H
HLn(x) ==
    LET mk == HLnReduce(x, 0)
        m  == mk[1]
        z  == HDiv(m - H, m + H)
        z2 == HMul(z, z)
        z3 == HMul(z2, z)
        z5 == HMul(z3, z2)
        z7 == HMul(z5, z2)
        z9 == HMul(z7, z2)
    IN  mk[2] * 693147 + 2 * (z + z3 \div 3 + z5 \div 5 + z7 \div 7 + z9 \div 9)

RECURSIVE HExpSeries(_, _, _, _)
HExpSeries(y, term, n, acc) ==
    IF term = 0 \/ n > 16 THEN acc
    ELSE LET t == HMul(term, y) \div n
         IN  HExpSeries(y, t, n + 1, acc + t)

\* e^y for 0 <= y < 3.5 at scale H
HExp(y) == HExpSeries(y, H, 1, H)

\* 2595 * log10(1 + frequency / 700), result at scale H; frequency in Hz
frequencyToMel(frequency) ==
    2595 * HDiv(HLn(H + (frequency * H) \div 700), 2302585)

\* 700 * (10^(mel / 2595) - 1), mel and result at scale H
melToFrequency(mel) == 700 * (HExp(HMul(mel \div 2595, 2302585)) - H)

\* FFT bin of mel point i of numFilters + 2 points spread evenly over [lowMel, highMel]
melBinIndex(i, lowMel, highMel, numFilters, fftSize, sampleRate) ==
    Min((((melToFrequency(lowMel + MulDiv(highMel - lowMel, i, numFilters + 1)) \div sampleRate)
          * fftSize * 2) \div H),
        fftSize - 1)

\* weight of FFT bin j in the triangle (left, center, right)
filterWeight(j, left, center, right) ==
    IF j >= center /\ j < right THEN RDiv((right - j) * Q, right - center)
    ELSE IF j >= left /\ j < center THEN RDiv((j - left) * Q, center - left)
    ELSE 0

\* bank[i][j]: weight of FFT bin j - 1 in triangular filter i - 1
melFilterRows(binIndices, numFilters, fftSize) ==
    [i \in 1..numFilters |->
        [j \in 1..fftSize |->
            filterWeight(j - 1, binIndices[i - 1], binIndices[i], binIndices[i + 1])]]

createMelFilterBank(numFilters, fftSize, sampleRate) ==
    melFilterRows([i \in 0..(numFilters + 1) |->
                      melBinIndex(i, frequencyToMel(0), frequencyToMel(sampleRate \div 2),
                                  numFilters, fftSize, sampleRate)],
                  numFilters, fftSize)

\* std::log(1e-10f)
LogEpsilon == -23026

\* cos(pi * j / 52) for j = 0..26, rounded so that every DCT basis vector of
\* order k >= 1 sums to zero, as it does in double precision
CosTable == <<1000, 998, 993, 984, 970, 955, 935, 912, 885, 856, 823, 787, 749, 707,
              663, 617, 568, 517, 465, 410, 355, 298, 239, 180, 121, 60, 0>>

\* cos(pi * j / 52) for any j >= 0
CosPi52(j) ==
    LET a == j % 104
        b == IF a > 52 THEN 104 - a ELSE a
    IN  IF b <= 26 THEN CosTable[b + 1] ELSE -CosTable[52 - b + 1]

\* DCT-II of the 26 log mel energies: out[k] = sum_n in[n] cos(pi k (n + 0.5) / N)
computeDCT(input, numCoeffs) ==
    [k \in 1..numCoeffs |->
        RDiv(SumSeq([n \in 1..Len(input) |-> input[n] * CosPi52((k - 1) * (2 * (n - 1) + 1))]), Q)]

\* energy of one magnitude spectrum under one triangular filter
filterEnergy(magnitude, filter) ==
    SumSeq([j \in 1..Min(Len(magnitude), Len(filter)) |-> FMul(magnitude[j], filter[j])])

\* std::log(energy), with std::log(1e-10f) for an energy of 0
logEnergy(energy) == IF energy <= 0 THEN LogEpsilon ELSE FLn(energy)

\* the log mel energies of one frame
melEnergies(magnitude, melFilters) ==
    [i \in 1..Len(melFilters) |-> logEnergy(filterEnergy(magnitude, melFilters[i]))]

\* the frame loop of extractMFCC
mfccFrames(mags, melFilters, numCoeffs) ==
    concatAll([t \in 1..Len(mags) |-> computeDCT(melEnergies(mags[t], melFilters), numCoeffs)])

extractMFCC(p, numCoeffs, windowSize, hopSize) ==
    IF ~isValid(p) THEN <<>>
    ELSE mfccFrames(spectra(p, windowSize, IF hopSize <= 0 THEN windowSize \div 4 ELSE hopSize),
                    createMelFilterBank(26, windowSize \div 2, p.sampleRate), numCoeffs)

\* ---------------------------------------------------------- result records
SUCCESS == 0
ERROR_INVALID_INPUT == -1
ERROR_INSUFFICIENT_DATA == -2
ERROR_PROCESSING_FAILED == -3
ERROR_OUT_OF_MEMORY == -4
ERROR_UNSUPPORTED_FORMAT == -5

SPECTRAL_FLUX == 0
CHROMA == 1
ENERGY == 2
MFCC == 3
HYBRID == 4

\* stand-ins for 1e10 and -1e10, above every quotient FDiv can return
Sentinel1e10 == 2000000000
\* stand-in for the -infinity that std::log10(0.0) returns
NegInfinity == -2000000000

createResult(offsetSamples, confidence, peakCorrelation, secondaryPeakRatio, snrEstimate, noiseFloorDb, method, error) ==
    [offset_samples |-> offsetSamples, confidence |-> confidence,
     peak_correlation |-> peakCorrelation, secondary_peak_ratio |-> secondaryPeakRatio,
     snr_estimate |-> snrEstimate, noise_floor_db |-> noiseFloorDb,
     method |-> method, error |-> error]

createErrorResult(error, method) ==
    createResult(0, 0, 0, 1 * Q, 0, -60 * Q, method, error)

\* harmoniq_sync_result_t result = {}
ZeroResult == createResult(0, 0, 0, 0, 0, 0, "", SUCCESS)

\* ---------------------------------------------------------- AlignmentEngine
\* AlignmentEngine::Config as default-constructed
DefaultEngineConfig ==
    [confidenceThreshold |-> 700, maxOffsetSamples |-> 0, windowSize |-> 1024,
     hopSize |-> 0, noiseGateDb |-> -40, enableDriftCorrection |-> TRUE,
     medianFilterSize |-> 3, numChromaBins |-> 12, smoothingWindowSize |-> 5,
     numCoeffs |-> 13, numMelFilters |-> 26, includeC0 |-> FALSE]

\* the test of currentValue against the adaptive threshold with the comparison turned
\* round
belowAdaptiveThreshold(currentValue, localSum, validSamples, threshold) ==
    (currentValue - threshold) * validSamples <= localSum

\* currentValue >= adaptiveThreshold, with adaptiveThreshold = localSum / validSamples
\* + threshold
exceedsAdaptiveThreshold(currentValue, localSum, validSamples, threshold) ==
    (currentValue - threshold) * validSamples >= localSum

\* the test of detectOnsets on index i (0-based): above the threshold, above the
\* adaptive threshold and a maximum of its window
isLocalMax(spectralFlux, i, threshold, halfWindow) ==
    LET inside == {j \in (-halfWindow)..halfWindow : i + j >= 0 /\ i + j < Len(spectralFlux)}
        localSum == SumSeq([k \in 1..Len(spectralFlux) |->
                               IF (k - 1 - i) \in inside THEN spectralFlux[k] ELSE 0])
    IN  /\ spectralFlux[i + 1] >= threshold
        /\ exceedsAdaptiveThreshold(spectralFlux[i + 1], localSum, Cardinality(inside), threshold)
        /\ \A j \in inside : spectralFlux[i + j + 1] <= spectralFlux[i + 1]

RECURSIVE pickOnsets(_, _, _, _, _)
\* the loop of detectOnsets from index i on, onsets being those found so far
pickOnsets(spectralFlux, i, threshold, windowSize, onsets) ==
    IF i >= Len(spectralFlux) - windowSize \div 2 THEN onsets
    ELSE IF ~isLocalMax(spectralFlux, i, threshold, windowSize \div 2)
    THEN pickOnsets(spectralFlux, i + 1, threshold, windowSize, onsets)
    ELSE IF onsets # <<>> /\ i - onsets[Len(onsets)] < windowSize \div 2
    THEN IF spectralFlux[i + 1] > spectralFlux[onsets[Len(onsets)] + 1]
         THEN pickOnsets(spectralFlux, i + 1, threshold, windowSize,
                         Append(SubSeq(onsets, 1, Len(onsets) - 1), i))
         ELSE pickOnsets(spectralFlux, i + 1, threshold, windowSize, onsets)
    ELSE pickOnsets(spectralFlux, i + 1, threshold, windowSize, Append(onsets, i))

\* AlignmentEngine::detectOnsets: the onset indices (0-based)
detectOnsets(spectralFlux, threshold, windowSize) ==
    IF spectralFlux = <<>> \/ windowSize <= 0 THEN <<>>
    ELSE IF Len(spectralFlux) <= 2 * (windowSize \div 2) THEN <<>>
    ELSE pickOnsets(spectralFlux, windowSize \div 2, threshold, windowSize, <<>>)

\* a validation that rejects every difference of the two sample rates
validateInputsAnyMismatch(reference, target) ==
    IF ~isValid(reference) \/ ~isValid(target) THEN ERROR_INVALID_INPUT
    ELSE IF reference.sampleRate # target.sampleRate THEN ERROR_UNSUPPORTED_FORMAT
    ELSE SUCCESS

validateInputs(reference, target) ==
    IF ~isValid(reference) \/ ~isValid(target) THEN ERROR_INVALID_INPUT
    ELSE IF getLength(reference) = 0 \/ getLength(target) = 0 THEN ERROR_INSUFFICIENT_DATA
    ELSE IF Abs(reference.sampleRate - target.sampleRate) > 1 THEN ERROR_UNSUPPORTED_FORMAT
    ELSE SUCCESS

\* a correlation over every lag at which the two sequences overlap
crossCorrelateAllLags(a, b) ==
    IF a = <<>> \/ b = <<>> THEN <<>>
    ELSE [lag \in 1..(Len(a) + Len(b) - 1) |->
            SumSeq([i \in 1..Len(a) |->
                       IF i + lag - Len(a) \in 1..Len(b) THEN FMul(a[i], b[i + lag - Len(a)])
                       ELSE 0])]

crossCorrelate(a, b) ==
    IF a = <<>> \/ b = <<>> THEN <<>>
    ELSE LET maxLag == Min(Len(a), Len(b))
             correlationSize == 2 * maxLag - 1
             at(lag) ==
                LET actualLag == lag - maxLag + 1
                    idx == {i \in 0..(Len(a) - 1) : i + actualLag >= 0 /\ i + actualLag < Len(b)}
                    sum == SumSeq([i \in 1..Len(a) |->
                              IF (i - 1) \in idx THEN FMul(a[i], b[i + actualLag]) ELSE 0])
                IN  IF Cardinality(idx) > 0 THEN RDiv(sum, Cardinality(idx)) ELSE 0
         IN  [lag \in 1..correlationSize |-> at(lag - 1)]

\* index (0-based) of the first maximum: std::max_element
maxElementIndex(correlation) ==
    CHOOSE i \in 0..(Len(correlation) - 1) :
        /\ \A j \in 0..(Len(correlation) - 1) : correlation[j + 1] <= correlation[i + 1]
        /\ \A j \in 0..(i - 1) : correlation[j + 1] < correlation[i + 1]

\* largest value at an index other than peakIndex, -1e10 when there is none
secondMaxOf(correlation, peakIndex) ==
    LET others == {correlation[i + 1] : i \in (0..(Len(correlation) - 1)) \ {peakIndex}}
    IN  IF others = {} THEN -Sentinel1e10
        ELSE CHOOSE v \in others : \A w \in others : w <= v

\* mean of the squares of a correlation sequence
meanSquare(correlation) ==
    LET n == Len(correlation)
        big == \E i \in 1..n : Abs(correlation[i]) > 40000
    IN  IF big THEN SumSeq([i \in 1..n |-> RDiv(FMul(correlation[i], correlation[i]), n)])
        ELSE RDiv(SumSeq([i \in 1..n |-> FMul(correlation[i], correlation[i])]), n)

calculateConfidenceFactors(correlation, peakIndex) ==
    IF correlation = <<>> \/ peakIndex >= Len(correlation)
    THEN [correlationStrength |-> 0, peakSharpness |-> 0, snr |-> 0]
    ELSE LET peakValue == correlation[peakIndex + 1]
             correlationEnergy == FSqrt(meanSquare(correlation))
             avgAbsCorrelation ==
                 RDiv(SumSeq([i \in 1..Len(correlation) |-> Abs(correlation[i])]), Len(correlation))
             secondMaxValue == secondMaxOf(correlation, peakIndex)
         IN  [correlationStrength |->
                 IF correlationEnergy > 0
                 THEN Max(0, Min(Q, FDiv(Abs(peakValue), correlationEnergy))) ELSE 0,
              peakSharpness |->
                 IF avgAbsCorrelation > 0
                 THEN FTanh(RDiv(FDiv(Abs(peakValue), avgAbsCorrelation), 10)) ELSE 0,
              snr |->
                 IF secondMaxValue > 0 /\ Abs(peakValue) > 0
                 THEN FTanh(RDiv(FLn(FDiv(Abs(peakValue), Abs(secondMaxValue)) + Q), 3))
                 ELSE IF Abs(peakValue) > 0 THEN Q ELSE 0]

calculateConfidence(correlation, peakIndex) ==
    IF correlation = <<>> THEN 0
    ELSE LET factors == calculateConfidenceFactors(correlation, peakIndex)
             confidence == RDiv(factors.correlationStrength * 5 + factors.peakSharpness * 3
                                + factors.snr * 2, 10)
         IN  Max(0, Min(Q, confidence))

findBestAlignment(correlation) ==
    IF correlation = <<>>
    THEN [index |-> 0, value |-> 0, confidence |-> 0, secondaryPeakRatio |-> Q]
    ELSE LET maxIndex == maxElementIndex(correlation)
             maxValue == correlation[maxIndex + 1]
             secondMax == secondMaxOf(correlation, maxIndex)
         IN  [index |-> maxIndex, value |-> maxValue,
              confidence |-> calculateConfidence(correlation, maxIndex),
              secondaryPeakRatio |-> IF secondMax > 0 THEN FDiv(maxValue, secondMax)
                                     ELSE Sentinel1e10]

\* 20 * log10(x) of a fixed-point ratio x >= 0
Decibels(x) == IF x <= 0 THEN NegInfinity ELSE 20 * FLog10(x)

calculateSNREstimate(correlation, peakIndex) ==
    IF correlation = <<>> THEN 0
    ELSE LET signal == correlation[peakIndex + 1]
             exclusionWindow == 10
             far == {i \in 0..(Len(correlation) - 1) : Abs(i - peakIndex) > exclusionWindow}
             noiseValues == sortAscending(
                 [k \in 1..Cardinality(far) |->
                     Abs(correlation[(CHOOSE i \in far : Cardinality({j \in far : j < i}) = k - 1) + 1])])
         IN  IF noiseValues = <<>> THEN 40 * Q
             ELSE LET noise == noiseValues[Len(noiseValues) \div 2 + 1]
                  IN  IF noise > 0 THEN Decibels(FDiv(Abs(signal), noise)) ELSE 40 * Q

\* the 10th percentile in decibels without the 1e-10 added before the logarithm
calculateNoiseFloorNoEpsilon(correlation) ==
    IF correlation = <<>> THEN -60 * Q
    ELSE LET sortedValues == sortAscending([i \in 1..Len(correlation) |-> Abs(correlation[i])])
         IN  Decibels(sortedValues[Len(sortedValues) \div 10 + 1])

calculateNoiseFloor(correlation) ==
    IF correlation = <<>> THEN -60 * Q
    ELSE LET sortedValues == sortAscending([i \in 1..Len(correlation) |-> Abs(correlation[i])])
             noiseFloor == sortedValues[Len(sortedValues) \div 10 + 1]
         IN  IF noiseFloor = 0 THEN -200 * Q ELSE 20 * FLog10(noiseFloor)

\* subtract the value at the given percentile (in tenths), clamp at 0
applyAdaptiveThreshold(features, tenths) ==
    IF features = <<>> THEN features
    ELSE LET sorted == sortAscending(features)
             threshold == sorted[(Len(sorted) * tenths) \div 10 + 1]
         IN  [i \in 1..Len(features) |-> Max(0, features[i] - threshold)]

normalizeFeatures(features) ==
    IF features = <<>> THEN features
    ELSE LET minVal == SeqMin(features)
             maxVal == SeqMax(features)
         IN  IF maxVal > minVal
             THEN [i \in 1..Len(features) |-> FDiv(features[i] - minVal, maxVal - minVal)]
             ELSE features

\* method tag written by the four single-method alignments and by hybrid
methodTag(method) ==
    CASE method = SPECTRAL_FLUX -> "Spectral Flux"
      [] method = CHROMA -> "Chroma Features"
      [] method = ENERGY -> "Energy Correlation"
      [] method = MFCC -> "MFCC"
      [] method = HYBRID -> "Hybrid"
      [] OTHER -> "Unknown"

PrimaryMethods == {SPECTRAL_FLUX, CHROMA, ENERGY, MFCC}

\* stage Extract: the feature sequence of one clip for one primary method
extractFeatures(method, p, config) ==
    CASE method = SPECTRAL_FLUX -> extractSpectralFlux(p, config.windowSize, config.hopSize)
      [] method = CHROMA -> extractChromaFeatures(p, config.windowSize, config.hopSize)
      [] method = ENERGY -> extractEnergyProfile(p, config.windowSize, config.hopSize)
      [] method = MFCC -> extractMFCC(p, config.numCoeffs, config.windowSize, config.hopSize)

\* feature shaping done by the flux and energy alignments before correlating
shapeFeatures(method, features, config) ==
    CASE method = SPECTRAL_FLUX ->
            normalizeFeatures(smoothFeatures(applyAdaptiveThreshold(features, 1),
                                             config.medianFilterSize))
      [] method = ENERGY ->
            normalizeFeatures(smoothFeatures(features, config.smoothingWindowSize))
      [] OTHER -> features

\* the values of one dimension of a flat vector-per-frame sequence
dimensionOf(features, dim, stride) ==
    [k \in 1..((Len(features) - dim + stride - 1) \div stride) |-> features[dim + (k - 1) * stride + 1]]

RECURSIVE combineDimensions(_, _, _, _, _, _, _)
\* the per-dimension loop of alignChromaFeatures (weighted = FALSE) and alignMFCC
combineDimensions(dim, numDims, stride, refFeatures, targetFeatures, config, weighted) ==
    IF dim < 0 THEN <<>>
    ELSE
    LET combinedCorrelation ==
            combineDimensions(dim - 1, numDims, stride, refFeatures, targetFeatures, config, weighted)
        refDim == IF dim < Len(refFeatures) THEN dimensionOf(refFeatures, dim, stride) ELSE <<>>
        targetDim == IF dim < Len(targetFeatures) THEN dimensionOf(targetFeatures, dim, stride) ELSE <<>>
        skip == refDim = <<>> \/ targetDim = <<>>
                \/ (weighted /\ ~config.includeC0 /\ dim = 0)
        dimCorrelation == crossCorrelate(refDim, targetDim)
        weight == IF weighted THEN RDiv(Q * Q, Q + dim * 100) ELSE Q
    IN  IF skip THEN combinedCorrelation
        ELSE IF combinedCorrelation = <<>>
        THEN [i \in 1..Len(dimCorrelation) |-> FMul(dimCorrelation[i], weight)]
        ELSE [i \in 1..Len(combinedCorrelation) |->
                IF i <= Len(dimCorrelation)
                THEN RDiv(combinedCorrelation[i] + FMul(dimCorrelation[i], weight), 2)
                ELSE combinedCorrelation[i]]

\* stage Correlate: the correlation sequence of one primary method
correlateFeatures(method, refFeatures, targetFeatures, config) ==
    CASE method = CHROMA ->
            combineDimensions(config.numChromaBins - 1, config.numChromaBins, 12,
                              refFeatures, targetFeatures, config, FALSE)
      [] method = MFCC ->
            combineDimensions(config.numCoeffs - 1, config.numCoeffs, config.numCoeffs,
                              refFeatures, targetFeatures, config, TRUE)
      [] OTHER ->
            crossCorrelate(shapeFeatures(method, refFeatures, config),
                           shapeFeatures(method, targetFeatures, config))

\* the automatic search range: a quarter of the shorter clip unless configured
calculateMaxOffset(config, refLength, targetLength) ==
    IF config.maxOffsetSamples > 0 THEN config.maxOffsetSamples
    ELSE Min(refLength, targetLength) \div 4

\* number of reference frames entering the offset conversion
referenceFrames(method, refFeatures, config) ==
    CASE method = CHROMA -> Len(refFeatures) \div 12
      [] method = MFCC -> Len(refFeatures) \div config.numCoeffs
      [] OTHER -> Len(refFeatures)

\* the hop size the alignments multiply the peak index and the frame count by
offsetHop(config) == config.hopSize

\* peak index (0-based) to sample offset
sampleOffsetOf(peakIndex, refFrames, config) ==
    peakIndex * offsetHop(config) - ((refFrames * offsetHop(config)) \div 2)

\* scorePeak with the threshold test left out
scorePeakUnchecked(method, peak, correlation, refFeatures, config) ==
    createResult(
        sampleOffsetOf(peak.index, referenceFrames(method, refFeatures, config), config),
        peak.confidence, peak.value, peak.secondaryPeakRatio,
        calculateSNREstimate(correlation, peak.index),
        calculateNoiseFloor(correlation),
        methodTag(method), SUCCESS)

\* the threshold test on the selected peak, the metrics and the result assembly
scorePeak(method, peak, correlation, refFeatures, config) ==
    IF peak.confidence < config.confidenceThreshold
    THEN createErrorResult(ERROR_PROCESSING_FAILED, methodTag(method))
    ELSE createResult(
            sampleOffsetOf(peak.index, referenceFrames(method, refFeatures, config), config),
            peak.confidence, peak.value, peak.secondaryPeakRatio,
            calculateSNREstimate(correlation, peak.index),
            calculateNoiseFloor(correlation),
            methodTag(method), SUCCESS)

\* stage Score: peak selection, threshold test, metrics and result assembly
scoreCorrelation(method, correlation, refFeatures, config) ==
    IF correlation = <<>> THEN createErrorResult(ERROR_PROCESSING_FAILED, methodTag(method))
    ELSE scorePeak(method, findBestAlignment(correlation), correlation, refFeatures, config)

\* a primary method after validation and extraction
alignFeatures(method, refFeatures, targetFeatures, config) ==
    IF refFeatures = <<>> \/ targetFeatures = <<>>
    THEN createErrorResult(ERROR_INSUFFICIENT_DATA, methodTag(method))
    ELSE scoreCorrelation(method,
                          correlateFeatures(method, refFeatures, targetFeatures, config),
                          refFeatures, config)

\* alignSpectralFlux, alignChromaFeatures, alignEnergyCorrelation, alignMFCC
alignSingle(method, reference, target, config) ==
    IF validateInputs(reference, target) # SUCCESS
    THEN createErrorResult(validateInputs(reference, target), methodTag(method))
    ELSE alignFeatures(method, extractFeatures(method, reference, config),
                       extractFeatures(method, target, config), config)

\* x / y truncated toward zero: static_cast<int64_t>(double)
TruncDiv(x, y) == IF x >= 0 THEN x \div y ELSE -((-x) \div y)

\* a fusion that succeeds only when all four primary methods did
fuseRequireAll(fourResults) ==
    IF \A i \in 1..Len(fourResults) : fourResults[i].error = SUCCESS
    THEN [fourResults[1] EXCEPT !.method = "Hybrid"]
    ELSE createErrorResult(ERROR_PROCESSING_FAILED, "Hybrid")

\* the fusion step of alignHybrid over the four primary results, in order
fuseResults(fourResults) ==
    LET results == SelectSeq(fourResults, LAMBDA r : r.error = SUCCESS)
        n == Len(results)
        totalWeight == SumSeq([i \in 1..n |-> results[i].confidence])
        weightedOffset == SumSeq([i \in 1..n |-> results[i].offset_samples * results[i].confidence])
        weightedConfidence == SumSeq([i \in 1..n |-> results[i].confidence * results[i].confidence])
        wavg(field(_)) == SumSeq([i \in 1..n |-> MulDiv(field(results[i]), results[i].confidence, totalWeight)])
        peakOf(r) == r.peak_correlation
        snrOf(r) == r.snr_estimate
        floorOf(r) == r.noise_floor_db
    IN  IF n = 0 THEN createErrorResult(ERROR_PROCESSING_FAILED, "Hybrid")
        ELSE IF totalWeight > 0
        THEN createResult(TruncDiv(weightedOffset, totalWeight),
                          RDiv(weightedConfidence, totalWeight),
                          wavg(peakOf),
                          SumSeq([i \in 1..n |-> results[i].secondary_peak_ratio \div n]),
                          wavg(snrOf), wavg(floorOf), "Hybrid", SUCCESS)
        ELSE createErrorResult(ERROR_PROCESSING_FAILED, "Hybrid")

alignHybrid(reference, target, config) ==
    LET error == validateInputs(reference, target)
    IN  IF error # SUCCESS THEN createErrorResult(error, "Hybrid")
        ELSE fuseResults(<<alignSingle(SPECTRAL_FLUX, reference, target, config),
                           alignSingle(CHROMA, reference, target, config),
                           alignSingle(ENERGY, reference, target, config),
                           alignSingle(MFCC, reference, target, config)>>)

\* the method switch shared by alignBatch and the C bridge
alignWith(method, reference, target, config) ==
    IF method \in PrimaryMethods THEN alignSingle(method, reference, target, config)
    ELSE alignHybrid(reference, target, config)

alignBatch(reference, targets, method, config) ==
    [i \in 1..Len(targets) |->
        IF method \in PrimaryMethods \cup {HYBRID}
        THEN alignWith(method, reference, targets[i], config)
        ELSE createErrorResult(ERROR_INVALID_INPUT, "Unknown")]

\* ---------------------------------------------------------- C bridge, SyncEngine
\* a caller's (pointer, length) pair of samples
NullBuffer == [null |-> TRUE, data |-> <<>>]
Buffer(data) == [null |-> FALSE, data |-> data]

\* a caller's const harmoniq_sync_config_t*
CConfig(threshold, window, hop) ==
    [null |-> FALSE, confidence_threshold |-> threshold, max_offset_samples |-> 0,
     window_size |-> window, hop_size |-> hop, noise_gate_db |-> -40,
     enable_drift_correction |-> 1]
NullConfig == [CConfig(0, 0, 0) EXCEPT !.null = TRUE]

harmoniq_sync_default_config == CConfig(700, 1024, 256)

\* SyncEngine::convertConfig, and the non-null branch of createEngineConfig
convertConfig(cConfig) ==
    [DefaultEngineConfig EXCEPT
        !.confidenceThreshold = cConfig.confidence_threshold,
        !.maxOffsetSamples = cConfig.max_offset_samples,
        !.windowSize = cConfig.window_size,
        !.hopSize = cConfig.hop_size,
        !.noiseGateDb = cConfig.noise_gate_db,
        !.enableDriftCorrection = (cConfig.enable_drift_correction # 0),
        !.medianFilterSize = 5, !.numChromaBins = 12, !.smoothingWindowSize = 3,
        !.numCoeffs = 13, !.includeC0 = FALSE, !.numMelFilters = 26]

createEngineConfig(config) ==
    IF config.null THEN DefaultEngineConfig ELSE convertConfig(config)

harmoniq_sync_min_audio_length(method, sample_rate) ==
    IF sample_rate <= 0 THEN 0
    ELSE CASE method = SPECTRAL_FLUX -> 2 * sample_rate
           [] method = CHROMA -> 4 * sample_rate
           [] method = ENERGY -> 1 * sample_rate
           [] method = MFCC -> 3 * sample_rate
           [] method = HYBRID -> 4 * sample_rate
           [] OTHER -> 2 * sample_rate

\* harmoniq_sync_validate_config, and SyncEngine::validateConfig on config_
harmoniq_sync_validate_config(config) ==
    IF config.null THEN ERROR_INVALID_INPUT
    ELSE IF config.confidence_threshold < 0 \/ config.confidence_threshold > Q
    THEN ERROR_INVALID_INPUT
    ELSE IF config.window_size <= 0 \/ config.hop_size <= 0 THEN ERROR_INVALID_INPUT
    ELSE IF config.hop_size > config.window_size THEN ERROR_INVALID_INPUT
    ELSE IF config.noise_gate_db > 0 \/ config.noise_gate_db < -120 THEN ERROR_INVALID_INPUT
    ELSE SUCCESS

\* harmoniq_sync_result_t result = {} with its error and tag set by the bridge
bridgeErrorResult(error, tag) == [ZeroResult EXCEPT !.error = error, !.method = tag]

\* a validation that tests the lengths before the pointers
syncValidateLengthsFirst(referenceAudio, targetAudio, sampleRate) ==
    IF Len(referenceAudio.data) = 0 \/ Len(targetAudio.data) = 0 THEN ERROR_INSUFFICIENT_DATA
    ELSE IF referenceAudio.null \/ targetAudio.null THEN ERROR_INVALID_INPUT
    ELSE IF sampleRate <= 0 \/ sampleRate > 192000 THEN ERROR_INVALID_INPUT
    ELSE SUCCESS

\* a validation that tests the sample rate before the lengths
syncValidateRateFirst(referenceAudio, targetAudio, sampleRate) ==
    IF referenceAudio.null \/ targetAudio.null THEN ERROR_INVALID_INPUT
    ELSE IF sampleRate <= 0 \/ sampleRate > 192000 THEN ERROR_INVALID_INPUT
    ELSE IF Len(referenceAudio.data) < sampleRate \/ Len(targetAudio.data) < sampleRate
    THEN ERROR_INSUFFICIENT_DATA
    ELSE SUCCESS

\* SyncEngine::validateInputs
syncValidateInputs(referenceAudio, targetAudio, sampleRate) ==
    IF referenceAudio.null \/ targetAudio.null THEN ERROR_INVALID_INPUT
    ELSE IF Len(referenceAudio.data) = 0 \/ Len(targetAudio.data) = 0
    THEN ERROR_INSUFFICIENT_DATA
    ELSE IF sampleRate <= 0 \/ sampleRate > 192000 THEN ERROR_INVALID_INPUT
    ELSE IF Len(referenceAudio.data) < sampleRate \/ Len(targetAudio.data) < sampleRate
    THEN ERROR_INSUFFICIENT_DATA
    ELSE SUCCESS

\* SyncEngine::createErrorResult
syncCreateErrorResult(error, method) ==
    [offset_samples |-> 0, confidence |-> 0, peak_correlation |-> 0,
     secondary_peak_ratio |-> 1 * Q, snr_estimate |-> 0, noise_floor_db |-> -60 * Q,
     method |-> method, error |-> error]

\* SyncEngine::ProcessingStats as default-constructed
InitialStats ==
    [processingTimeSeconds |-> 0, audioLengthSeconds |-> 0, realtimeRatio |-> 0,
     memoryUsedBytes |-> 0, methodUsed |-> SPECTRAL_FLUX, successful |-> FALSE]

\* SyncEngine::updateProcessingStats; the calls of the model take no measurable time
updateProcessingStats(processingTime, audioLength, method, successful) ==
    [processingTimeSeconds |-> processingTime, audioLengthSeconds |-> audioLength,
     realtimeRatio |-> IF audioLength > 0 THEN FDiv(processingTime, audioLength) ELSE 0,
     memoryUsedBytes |-> 0, methodUsed |-> method, successful |-> successful]

\* the sample rate harmoniq_sync_process passes to SyncEngine::process
ProcessSampleRate == 44100

\* harmoniq_sync_align as a function of its arguments
harmoniq_sync_align(ref, tgt, rate, method, config) ==
    IF ref.null \/ tgt.null \/ Len(ref.data) = 0 \/ Len(tgt.data) = 0 \/ rate <= 0
    THEN bridgeErrorResult(ERROR_INVALID_INPUT, "Invalid")
    ELSE IF ~loadAudio(EmptyProcessor, ref, rate).ok \/ ~loadAudio(EmptyProcessor, tgt, rate).ok
    THEN bridgeErrorResult(ERROR_PROCESSING_FAILED, "LoadFailed")
    ELSE IF method \in PrimaryMethods \cup {HYBRID}
    THEN alignWith(method, loadAudio(EmptyProcessor, ref, rate).proc,
                   loadAudio(EmptyProcessor, tgt, rate).proc, createEngineConfig(config))
    ELSE bridgeErrorResult(ERROR_INVALID_INPUT, "Unknown")

\* SyncEngine::process as a function of its arguments and of the engine's configuration
process(ref, tgt, rate, method, engine) ==
    IF syncValidateInputs(ref, tgt, rate) # SUCCESS
    THEN syncCreateErrorResult(syncValidateInputs(ref, tgt, rate), "Validation")
    ELSE IF ~loadAudio(EmptyProcessor, ref, rate).ok
    THEN syncCreateErrorResult(ERROR_PROCESSING_FAILED, "LoadReference")
    ELSE IF ~loadAudio(EmptyProcessor, tgt, rate).ok
    THEN syncCreateErrorResult(ERROR_PROCESSING_FAILED, "LoadTarget")
    ELSE IF method \in PrimaryMethods \cup {HYBRID}
    THEN alignWith(method, loadAudio(EmptyProcessor, ref, rate).proc,
                   loadAudio(EmptyProcessor, tgt, rate).proc, engine)
    ELSE syncCreateErrorResult(ERROR_INVALID_INPUT, "UnknownMethod")

\* ---------------------------------------------------------- inputs of the model
\* MaxLen samples of silence
Silence == [i \in 1..MaxLen |-> 0]

\* MaxLen samples, full scale on width samples from start, silent elsewhere
Burst(start, width) ==
    [i \in 1..MaxLen |-> IF i >= start /\ i < start + width THEN Q ELSE 0]

\* x delayed by k samples, same length
ShiftClip(x, k) == [i \in 1..Len(x) |-> IF i <= k THEN 0 ELSE x[i - k]]

\* a clip shorter than one analysis window
TooShort == <<Q, 0, 0>>

LongClips == {Silence, Burst(2, 2), ShiftClip(Burst(2, 2), 2), Burst(MaxLen - 3, 1)}
AlignBuffers == {NullBuffer, Buffer(<<>>), Buffer(TooShort)} \cup {Buffer(c) : c \in LongClips}
AlignRates == {0, 2, 1000}
MethodCodes == 0..5
AlignConfigs == {NullConfig} \cup {CConfig(t, 4, h) : t \in {0, 600}, h \in {0, 1, 2, 5}}

\* 2 * MaxLen samples with a burst near each end: long enough for correlation lags more
\* than 10 frames away from the peak
TwoBursts == Burst(4, 2) \o Burst(MaxLen - 1, 1)

DirectBuffers == {NullBuffer, Buffer(Burst(2, 2)), Buffer(ShiftClip(Burst(2, 2), 2)),
                  Buffer(TwoBursts)}
DirectRates == {2, 3, 5, 1000}
DirectConfigs == {CConfig(600, 4, 1)}

BatchBuffers == {NullBuffer, Buffer(TooShort), Buffer(ShiftClip(Burst(2, 2), 2))}
BatchReferences == {NullBuffer, Buffer(<<>>), Buffer(Burst(2, 2))}
BatchConfigs == {CConfig(0, 4, 1), CConfig(600, 4, 1)}
BatchRates == {1000}
RECURSIVE BatchTargets(_)
\* the target arrays of exactly n elements
BatchTargets(n) ==
    IF n = 0 THEN {<<>>}
    ELSE {Append(ts, b) : ts \in BatchTargets(n - 1), b \in BatchBuffers}
TargetArrays == UNION {BatchTargets(n) : n \in 0..MaxTargets}

ProcessBuffers == {NullBuffer, Buffer(<<>>), Buffer(TooShort), Buffer(Burst(2, 2)),
                   Buffer(ShiftClip(Burst(2, 2), 2))}
ProcessRates == {0, 2, 4, 200000}
SyncConfigs == {CConfig(600, 4, 1)}
EngineConfigs == {NullConfig} \cup {CConfig(t, 4, h) : t \in {600, 1200}, h \in {0, 1, 2, 5}}

NoArgs ==
    [reference |-> NullBuffer, targets |-> <<>>, targetsNull |-> FALSE,
     referenceRate |-> 0, sampleRate |-> 0, method |-> 0, config |-> NullConfig,
     engineNull |-> FALSE, resultNull |-> FALSE]

\* ---------------------------------------------------------- state
VARIABLES
    pc,               \* position of the running call
    api,              \* entry point of the running call
    args,             \* its arguments
    config_,          \* SyncEngine::config_
    alignmentEngine_, \* configuration of SyncEngine::alignmentEngine_
    lastStats_,       \* SyncEngine::lastStats_
    progress,         \* values passed to updateProgress by the running call
    reference,        \* the call's reference AudioProcessor
    targets,          \* the call's target AudioProcessors
    engineConfig,     \* configuration of the AlignmentEngine the call uses
    ti,               \* index of the target being aligned
    cur,              \* primary method being run
    refFeatures, targetFeatures, correlation,
    subResults,       \* hybrid: results of the primary methods run so far
    elem,             \* result of the alignment of target ti
    results,          \* results of the targets aligned so far
    trace,            \* stages run for target ti: [stage, method, error]
    result,           \* the harmoniq_sync_result_t returned or written
    batchResult,      \* the batch returned
    returnCode,       \* harmoniq_sync_process: the returned error code
    scratch,          \* mutable scratch of the reference AudioProcessor shared by the workers
    workers,          \* concurrent alignSpectralFlux calls on that reference
    processor,        \* an AudioProcessor its owner loads clips into, one after another
    loadReturned,     \* what the last loadAudio on processor returned
    call,             \* a call of one function of the engine: its arguments and outcome
    loop,             \* the frame loop of a feature extraction under way
    handler,          \* the static state of ErrorHandler
    clients           \* the threads that call ErrorHandler

engineVars == <<config_, alignmentEngine_>>
callVars == <<api, args>>
loadVars == <<reference, targets, engineConfig>>
stageVars == <<refFeatures, targetFeatures, correlation>>
outVars == <<result, batchResult, returnCode>>
concVars == <<scratch, workers>>
unitVars == <<processor, loadReturned, call, loop, handler, clients>>
vars == <<pc, api, args, config_, alignmentEngine_, lastStats_, progress, reference, targets,
          engineConfig, ti, cur, refFeatures, targetFeatures, correlation, subResults,
          elem, results, trace, result, batchResult, returnCode, scratch, workers,
          processor, loadReturned, call, loop, handler, clients>>

\* the threads of the concurrent scenario
Threads == {1, 2}

\* workingBuffer and windowFunction of a freshly constructed AudioProcessor
EmptyScratch == [workingBuffer |-> <<>>, windowFunction |-> <<>>]

\* a worker that has not been started
IdleWorker ==
    [pc |-> "idle", pos |-> 0, prevMagnitude |-> <<>>, spectralFlux |-> <<>>,
     result |-> ZeroResult]

NoBatch == [results |-> <<>>, count |-> 0, error |-> SUCCESS]

\* no loadAudio has been called on processor
NotLoaded == [called |-> FALSE, ok |-> FALSE]

\* no frame loop is running
NoLoop == [pos |-> 0, hopSize |-> 0, frames |-> 0, odd |-> FALSE]

\* ErrorSeverity
SeverityTrace == 0
SeverityInfo == 2
SeverityError == 4

\* the static members of ErrorHandler as initialised: an empty log, minimum severity
\* Info, the mutex free, no unsynchronised access under way
InitialHandler ==
    [errorLog_ |-> <<>>, callbacks_ |-> <<>>, minimumSeverity_ |-> SeverityInfo,
     errorMutex_ |-> 0, logged |-> 0, accessing |-> {}, raced |-> FALSE]

\* a thread outside every ErrorHandler function
IdleClient == [pc |-> "idle", severity |-> 0, out |-> <<>>]

\* no function call is under way
NoCall ==
    [op |-> "none", a |-> <<>>, b |-> <<>>, n |-> 0, status |-> "none", out |-> <<>>]

Init ==
    /\ pc = "idle"
    /\ api = "none"
    /\ args = NoArgs
    /\ config_ = harmoniq_sync_default_config
    /\ alignmentEngine_ = convertConfig(harmoniq_sync_default_config)
    /\ lastStats_ = InitialStats
    /\ progress = <<>>
    /\ reference = EmptyProcessor
    /\ targets = <<>>
    /\ engineConfig = DefaultEngineConfig
    /\ ti = 0
    /\ cur = SPECTRAL_FLUX
    /\ refFeatures = <<>>
    /\ targetFeatures = <<>>
    /\ correlation = <<>>
    /\ subResults = <<>>
    /\ elem = ZeroResult
    /\ results = <<>>
    /\ trace = <<>>
    /\ result = ZeroResult
    /\ batchResult = NoBatch
    /\ returnCode = SUCCESS
    /\ scratch = EmptyScratch
    /\ workers = [t \in Threads |-> IdleWorker]
    /\ processor = EmptyProcessor
    /\ loadReturned = NotLoaded
    /\ call = NoCall
    /\ loop = NoLoop
    /\ handler = InitialHandler
    /\ clients = [t \in Threads |-> IdleClient]

\* the targets of a batch as loaded: a failed load leaves the processor empty
loadTargets(buffers, sampleRate) ==
    [i \in 1..Len(buffers) |-> loadAudio(EmptyProcessor, buffers[i], sampleRate).proc]

\* control passes to the alignment of the first target
StartAlignment(ref, tgts, config) ==
    /\ reference' = ref
    /\ targets' = tgts
    /\ engineConfig' = config
    /\ ti' = 1
    /\ pc' = "dispatch"

\* the call returns before any processor is used
ReturnEarly ==
    /\ pc' = "done"
    /\ UNCHANGED <<reference, targets, engineConfig, ti>>

\* SyncEngine::setConfig
SetConfig ==
    /\ pc = "idle"
    /\ UNCHANGED <<concVars, unitVars>>
    /\ \E c \in SyncConfigs :
        /\ config_' = c
        /\ alignmentEngine_' = convertConfig(c)
    /\ UNCHANGED <<pc, api, args, lastStats_, progress, reference, targets, engineConfig, ti,
                   cur, refFeatures, targetFeatures, correlation, subResults, elem, results,
                   trace, result, batchResult, returnCode>>

\* harmoniq_sync_get_engine_config on an engine whose config_ is engineConfig_
harmoniq_sync_get_engine_config(engineNull, engineConfig_) ==
    IF engineNull THEN harmoniq_sync_default_config ELSE engineConfig_

\* harmoniq_sync_set_engine_config: SyncEngine::validateConfig tests the configuration
\* the engine holds, then setConfig stores the one passed in
HarmoniqSyncSetEngineConfig ==
    /\ pc = "idle"
    /\ UNCHANGED <<concVars, unitVars>>
    /\ \E c \in EngineConfigs, engineNull \in BOOLEAN :
        /\ api' = "set_engine_config"
        /\ args' = [NoArgs EXCEPT !.config = c, !.engineNull = engineNull]
        /\ IF engineNull \/ c.null
           THEN /\ returnCode' = ERROR_INVALID_INPUT
                /\ UNCHANGED <<config_, alignmentEngine_>>
           ELSE IF harmoniq_sync_validate_config(config_) # SUCCESS
           THEN /\ returnCode' = harmoniq_sync_validate_config(config_)
                /\ UNCHANGED <<config_, alignmentEngine_>>
           ELSE /\ returnCode' = SUCCESS
                /\ config_' = c
                /\ alignmentEngine_' = convertConfig(c)
    /\ UNCHANGED <<pc, lastStats_, progress, reference, targets, engineConfig, ti,
                   cur, refFeatures, targetFeatures, correlation, subResults, elem, results,
                   trace, result, batchResult>>

\* AlignmentEngine::alignSpectralFlux .. alignHybrid called on processors the caller
\* loaded itself, each at its own rate
AlignDirect ==
    /\ pc = "idle"
    /\ UNCHANGED <<concVars, unitVars>>
    /\ \E ref \in DirectBuffers, tgt \in DirectBuffers, rr \in DirectRates, tr \in DirectRates,
          m \in PrimaryMethods \cup {HYBRID}, c \in DirectConfigs :
        /\ api' = "engine"
        /\ args' = [NoArgs EXCEPT !.reference = ref, !.targets = <<tgt>>, !.referenceRate = rr,
                                  !.sampleRate = tr, !.method = m, !.config = c]
        /\ StartAlignment(loadAudio(EmptyProcessor, ref, rr).proc,
                          <<loadAudio(EmptyProcessor, tgt, tr).proc>>, createEngineConfig(c))
    /\ UNCHANGED <<engineVars, lastStats_, progress, cur, stageVars, subResults, elem, results,
                   trace, outVars>>

\* harmoniq_sync_align up to its method switch
HarmoniqSyncAlign ==
    /\ pc = "idle"
    /\ UNCHANGED <<concVars, unitVars>>
    /\ \E ref \in AlignBuffers, tgt \in AlignBuffers, rate \in AlignRates, m \in MethodCodes,
          c \in AlignConfigs :
        LET refLoad == loadAudio(EmptyProcessor, ref, rate)
            targetLoad == loadAudio(EmptyProcessor, tgt, rate)
        IN  /\ api' = "align"
            /\ args' = [NoArgs EXCEPT !.reference = ref, !.targets = <<tgt>>,
                                      !.referenceRate = rate, !.sampleRate = rate,
                                      !.method = m, !.config = c]
            /\ IF ref.null \/ tgt.null \/ Len(ref.data) = 0 \/ Len(tgt.data) = 0 \/ rate <= 0
               THEN /\ result' = bridgeErrorResult(ERROR_INVALID_INPUT, "Invalid")
                    /\ ReturnEarly
               ELSE IF ~refLoad.ok \/ ~targetLoad.ok
               THEN /\ result' = bridgeErrorResult(ERROR_PROCESSING_FAILED, "LoadFailed")
                    /\ ReturnEarly
               ELSE /\ result' = ZeroResult
                    /\ StartAlignment(refLoad.proc, <<targetLoad.proc>>, createEngineConfig(c))
    /\ UNCHANGED <<engineVars, lastStats_, progress, cur, stageVars, subResults, elem, results,
                   trace, batchResult, returnCode>>

\* harmoniq_sync_align_batch up to engine.alignBatch; allocation of the result
\* array is taken to succeed
HarmoniqSyncAlignBatch ==
    /\ pc = "idle"
    /\ UNCHANGED <<concVars, unitVars>>
    /\ \E ref \in BatchReferences, tgts \in TargetArrays, tnull \in BOOLEAN,
          rate \in BatchRates, m \in MethodCodes, c \in BatchConfigs :
        LET refLoad == loadAudio(EmptyProcessor, ref, rate)
        IN  /\ api' = "align_batch"
            /\ args' = [NoArgs EXCEPT !.reference = ref, !.targets = tgts, !.targetsNull = tnull,
                                      !.referenceRate = rate, !.sampleRate = rate,
                                      !.method = m, !.config = c]
            /\ IF ref.null \/ tnull \/ Len(tgts) = 0
               THEN /\ batchResult' = [NoBatch EXCEPT !.error = ERROR_INVALID_INPUT]
                    /\ ReturnEarly
               ELSE IF ~refLoad.ok
               THEN /\ batchResult' = [NoBatch EXCEPT !.error = ERROR_PROCESSING_FAILED]
                    /\ ReturnEarly
               ELSE /\ batchResult' = NoBatch
                    /\ StartAlignment(refLoad.proc, loadTargets(tgts, rate), createEngineConfig(c))
    /\ UNCHANGED <<engineVars, lastStats_, progress, cur, stageVars, subResults, elem, results,
                   trace, result, returnCode>>

\* length / sampleRate in seconds
secondsOf(length, sampleRate) == RDiv(length * Q, sampleRate)

\* n copies of r: results.resize(targetCount, errorResult)
copies(n, r) == [i \in 1..n |-> r]

\* SyncEngine::process up to its method switch
processEntry(ref, tgt, rate, m) ==
    LET validationError == syncValidateInputs(ref, tgt, rate)
        refLoad == loadAudio(EmptyProcessor, ref, rate)
        targetLoad == loadAudio(EmptyProcessor, tgt, rate)
    IN  IF validationError # SUCCESS
        THEN /\ progress' = <<0>>
             /\ lastStats_' = updateProcessingStats(0, 0, m, FALSE)
             /\ result' = syncCreateErrorResult(validationError, "Validation")
             /\ ReturnEarly
        ELSE IF ~refLoad.ok
        THEN /\ progress' = <<0, 100>>
             /\ lastStats_' = updateProcessingStats(0, secondsOf(Len(ref.data), rate), m, FALSE)
             /\ result' = syncCreateErrorResult(ERROR_PROCESSING_FAILED, "LoadReference")
             /\ ReturnEarly
        ELSE IF ~targetLoad.ok
        THEN /\ progress' = <<0, 100, 300>>
             /\ lastStats_' = updateProcessingStats(0, secondsOf(Len(ref.data), rate), m, FALSE)
             /\ result' = syncCreateErrorResult(ERROR_PROCESSING_FAILED, "LoadTarget")
             /\ ReturnEarly
        ELSE /\ progress' = <<0, 100, 300, 500>>
             /\ UNCHANGED <<lastStats_, result>>
             /\ StartAlignment(refLoad.proc, <<targetLoad.proc>>, alignmentEngine_)

\* SyncEngine::process
Process ==
    /\ pc = "idle"
    /\ UNCHANGED <<concVars, unitVars>>
    /\ \E ref \in ProcessBuffers, tgt \in ProcessBuffers, rate \in ProcessRates,
          m \in MethodCodes :
        /\ api' = "process"
        /\ args' = [NoArgs EXCEPT !.reference = ref, !.targets = <<tgt>>, !.referenceRate = rate,
                                  !.sampleRate = rate, !.method = m]
        /\ processEntry(ref, tgt, rate, m)
    /\ UNCHANGED <<engineVars, cur, stageVars, subResults, elem, results, trace, batchResult,
                   returnCode>>

\* harmoniq_sync_process: result stays as the caller left it unless process ran
HarmoniqSyncProcess ==
    /\ pc = "idle"
    /\ UNCHANGED <<concVars, unitVars>>
    /\ \E ref \in DirectBuffers \cup {Buffer(<<>>)}, tgt \in DirectBuffers \cup {Buffer(<<>>)},
          enull \in BOOLEAN, rnull \in BOOLEAN :
        /\ api' = "c_process"
        /\ args' = [NoArgs EXCEPT !.reference = ref, !.targets = <<tgt>>,
                                  !.referenceRate = ProcessSampleRate,
                                  !.sampleRate = ProcessSampleRate, !.method = SPECTRAL_FLUX,
                                  !.engineNull = enull, !.resultNull = rnull]
        /\ IF enull \/ ref.null \/ tgt.null \/ rnull
           THEN /\ returnCode' = ERROR_INVALID_INPUT
                /\ UNCHANGED <<progress, lastStats_, result>>
                /\ ReturnEarly
           ELSE IF Len(ref.data) = 0 \/ Len(tgt.data) = 0
           THEN /\ returnCode' = ERROR_INSUFFICIENT_DATA
                /\ UNCHANGED <<progress, lastStats_, result>>
                /\ ReturnEarly
           ELSE /\ processEntry(ref, tgt, ProcessSampleRate, SPECTRAL_FLUX)
                /\ returnCode' = IF pc' = "done" THEN result'.error ELSE returnCode
    /\ UNCHANGED <<engineVars, cur, stageVars, subResults, elem, results, trace, batchResult>>

\* SyncEngine::processBatch up to alignmentEngine_->alignBatch
ProcessBatch ==
    /\ pc = "idle"
    /\ UNCHANGED <<concVars, unitVars>>
    /\ \E ref \in BatchReferences, tgts \in TargetArrays, tnull \in BOOLEAN,
          rate \in BatchRates, m \in MethodCodes :
        LET refLoad == loadAudio(EmptyProcessor, ref, rate)
            n == Len(tgts)
            failed(error, tag) ==
                [results |-> copies(n, syncCreateErrorResult(error, tag)), count |-> n,
                 error |-> SUCCESS]
        IN  /\ api' = "processBatch"
            /\ args' = [NoArgs EXCEPT !.reference = ref, !.targets = tgts, !.targetsNull = tnull,
                                      !.referenceRate = rate, !.sampleRate = rate, !.method = m]
            /\ IF ref.null \/ tnull \/ n = 0
               THEN /\ progress' = <<0>>
                    /\ batchResult' = failed(ERROR_INVALID_INPUT, "BatchValidation")
                    /\ ReturnEarly
               ELSE IF ~refLoad.ok
               THEN /\ progress' = <<0>>
                    /\ batchResult' = failed(ERROR_PROCESSING_FAILED, "BatchLoadReference")
                    /\ ReturnEarly
               ELSE /\ progress' = <<0, 100>> \o [i \in 1..n |-> 100 + RDiv(200 * i, n)] \o <<300>>
                    /\ batchResult' = NoBatch
                    /\ StartAlignment(refLoad.proc, loadTargets(tgts, rate), alignmentEngine_)
    /\ UNCHANGED <<engineVars, lastStats_, cur, stageVars, subResults, elem, results, trace,
                   result, returnCode>>

\* ---------------------------------------------------------- the alignment of one target
\* the method switch, for one of the four primary methods
DispatchPrimary ==
    /\ pc = "dispatch"
    /\ UNCHANGED <<concVars, unitVars>>
    /\ args.method \in PrimaryMethods
    /\ cur' = args.method
    /\ trace' = <<>>
    /\ progress' = IF api \in {"process", "c_process"} THEN Append(progress, 600) ELSE progress
    /\ pc' = "validate"
    /\ UNCHANGED <<callVars, engineVars, lastStats_, loadVars, ti, stageVars, subResults, elem,
                   results, outVars>>

\* the method switch, for hybrid
DispatchHybrid ==
    /\ pc = "dispatch"
    /\ UNCHANGED <<concVars, unitVars>>
    /\ args.method = HYBRID
    /\ trace' = <<>>
    /\ progress' = IF api \in {"process", "c_process"} THEN Append(progress, 600) ELSE progress
    /\ pc' = "hybrid"
    /\ UNCHANGED <<callVars, engineVars, lastStats_, loadVars, ti, cur, stageVars, subResults,
                   elem, results, outVars>>

\* the default branch of the method switch of each entry point
DispatchUnknown ==
    /\ pc = "dispatch"
    /\ UNCHANGED <<concVars, unitVars>>
    /\ args.method \notin PrimaryMethods \cup {HYBRID}
    /\ trace' = <<>>
    /\ IF api = "align"
       THEN /\ result' = bridgeErrorResult(ERROR_INVALID_INPUT, "Unknown")
            /\ pc' = "done"
            /\ UNCHANGED <<elem, lastStats_, returnCode>>
       ELSE IF api \in {"process", "c_process"}
       THEN /\ result' = syncCreateErrorResult(ERROR_INVALID_INPUT, "UnknownMethod")
            /\ lastStats_' = updateProcessingStats(
                   0, secondsOf(Len(args.reference.data), args.sampleRate), args.method, FALSE)
            /\ returnCode' = IF api = "c_process" THEN ERROR_INVALID_INPUT ELSE returnCode
            /\ pc' = "done"
            /\ UNCHANGED elem
       ELSE /\ elem' = createErrorResult(ERROR_INVALID_INPUT, "Unknown")
            /\ pc' = "collect"
            /\ UNCHANGED <<result, lastStats_, returnCode>>
    /\ UNCHANGED <<callVars, engineVars, progress, loadVars, ti, cur, stageVars, subResults,
                   results, batchResult>>

\* a primary method returns r: to the caller, or to alignHybrid which runs the next
return(r) ==
    IF args.method = HYBRID
    THEN /\ subResults' = Append(subResults, r)
         /\ cur' = IF cur = MFCC THEN cur ELSE cur + 1
         /\ pc' = IF cur = MFCC THEN "fuse" ELSE "validate"
         /\ UNCHANGED elem
    ELSE /\ elem' = r
         /\ pc' = "collect"
         /\ UNCHANGED <<cur, subResults>>

stageDone(stage, error) == trace' = Append(trace, [stage |-> stage, method |-> cur, error |-> error])

\* alignHybrid: validateInputs, before the four primary methods
ValidateHybrid ==
    /\ pc = "hybrid"
    /\ UNCHANGED <<concVars, unitVars>>
    /\ LET error == validateInputs(reference, targets[ti])
       IN  /\ trace' = <<[stage |-> "Validate", method |-> HYBRID, error |-> error]>>
           /\ IF error # SUCCESS
              THEN /\ elem' = createErrorResult(error, "Hybrid")
                   /\ pc' = "collect"
                   /\ UNCHANGED <<cur, subResults>>
              ELSE /\ cur' = SPECTRAL_FLUX
                   /\ subResults' = <<>>
                   /\ pc' = "validate"
                   /\ UNCHANGED elem
    /\ UNCHANGED <<callVars, engineVars, lastStats_, progress, loadVars, ti, stageVars, results,
                   outVars>>

\* stage Validate of a primary method
Validate ==
    /\ pc = "validate"
    /\ UNCHANGED <<concVars, unitVars>>
    /\ LET error == validateInputs(reference, targets[ti])
       IN  /\ stageDone("Validate", error)
           /\ IF error # SUCCESS
              THEN return(createErrorResult(error, methodTag(cur)))
              ELSE pc' = "extract" /\ UNCHANGED <<cur, subResults, elem>>
    /\ UNCHANGED <<callVars, engineVars, lastStats_, progress, loadVars, ti, stageVars, results,
                   outVars>>

\* stage Extract without the early return on an empty feature sequence
extractedContinue(rf, tf) ==
    /\ stageDone("Extract", IF rf = <<>> \/ tf = <<>> THEN ERROR_INSUFFICIENT_DATA ELSE SUCCESS)
    /\ refFeatures' = rf
    /\ targetFeatures' = tf
    /\ pc' = "correlate"
    /\ UNCHANGED <<cur, subResults, elem>>

\* stage Extract, given the features extracted from both clips
extracted(rf, tf) ==
    IF rf = <<>> \/ tf = <<>>
    THEN /\ stageDone("Extract", ERROR_INSUFFICIENT_DATA)
         /\ return(createErrorResult(ERROR_INSUFFICIENT_DATA, methodTag(cur)))
         /\ UNCHANGED <<refFeatures, targetFeatures>>
    ELSE /\ stageDone("Extract", SUCCESS)
         /\ refFeatures' = rf
         /\ targetFeatures' = tf
         /\ pc' = "correlate"
         /\ UNCHANGED <<cur, subResults, elem>>

\* stage Extract: the features of both clips
Extract ==
    /\ pc = "extract"
    /\ UNCHANGED <<concVars, unitVars>>
    /\ extracted(extractFeatures(cur, reference, engineConfig),
                 extractFeatures(cur, targets[ti], engineConfig))
    /\ UNCHANGED <<callVars, engineVars, lastStats_, progress, loadVars, ti, correlation, results,
                   outVars>>

\* stage Correlate, given the correlation sequence
correlated(c) ==
    IF c = <<>>
    THEN /\ stageDone("Correlate", ERROR_PROCESSING_FAILED)
         /\ return(createErrorResult(ERROR_PROCESSING_FAILED, methodTag(cur)))
         /\ UNCHANGED correlation
    ELSE /\ stageDone("Correlate", SUCCESS)
         /\ correlation' = c
         /\ pc' = "score"
         /\ UNCHANGED <<cur, subResults, elem>>

\* stage Correlate
Correlate ==
    /\ pc = "correlate"
    /\ UNCHANGED <<concVars, unitVars>>
    /\ correlated(correlateFeatures(cur, refFeatures, targetFeatures, engineConfig))
    /\ UNCHANGED <<callVars, engineVars, lastStats_, progress, loadVars, ti, refFeatures,
                   targetFeatures, results, outVars>>

\* stage Score, given the result it assembled
scored(r) == stageDone("Score", r.error) /\ return(r)

\* stage Score; the features and the correlation go out of scope
Score ==
    /\ pc = "score"
    /\ UNCHANGED <<concVars, unitVars>>
    /\ scored(scoreCorrelation(cur, correlation, refFeatures, engineConfig))
    /\ refFeatures' = <<>>
    /\ targetFeatures' = <<>>
    /\ correlation' = <<>>
    /\ UNCHANGED <<callVars, engineVars, lastStats_, progress, loadVars, ti, results, outVars>>

\* alignHybrid: fusion of the four primary results
Fuse ==
    /\ pc = "fuse"
    /\ UNCHANGED <<concVars, unitVars>>
    /\ elem' = fuseResults(subResults)
    /\ pc' = "collect"
    /\ UNCHANGED <<callVars, engineVars, lastStats_, progress, loadVars, ti, cur, stageVars,
                   subResults, results, trace, outVars>>

\* the alignment of target ti has returned: next target, or back to the entry point
Collect ==
    /\ pc = "collect"
    /\ UNCHANGED <<concVars, unitVars>>
    /\ results' = Append(results, elem)
    /\ IF ti < Len(targets)
       THEN ti' = ti + 1 /\ pc' = "dispatch"
       ELSE ti' = ti /\ pc' = "return"
    /\ UNCHANGED <<callVars, engineVars, lastStats_, progress, loadVars, cur, stageVars, subResults,
                   elem, trace, outVars>>

\* ---------------------------------------------------------- return to the caller
\* the direct calls and harmoniq_sync_align return the engine's result
ReturnAlign ==
    /\ pc = "return"
    /\ UNCHANGED <<concVars, unitVars>>
    /\ api \in {"engine", "align"}
    /\ result' = results[1]
    /\ pc' = "done"
    /\ UNCHANGED <<callVars, engineVars, lastStats_, progress, loadVars, ti, cur, stageVars,
                   subResults, elem, results, trace, batchResult, returnCode>>

\* harmoniq_sync_align_batch: copy of the results
ReturnAlignBatch ==
    /\ pc = "return"
    /\ UNCHANGED <<concVars, unitVars>>
    /\ api = "align_batch"
    /\ batchResult' = [results |-> results, count |-> Len(results), error |-> SUCCESS]
    /\ pc' = "done"
    /\ UNCHANGED <<callVars, engineVars, lastStats_, progress, loadVars, ti, cur, stageVars,
                   subResults, elem, results, trace, result, returnCode>>

\* SyncEngine::process after the method switch, and harmoniq_sync_process after it
ReturnProcess ==
    /\ pc = "return"
    /\ UNCHANGED <<concVars, unitVars>>
    /\ api \in {"process", "c_process"}
    /\ progress' = progress \o <<900, 1000>>
    /\ lastStats_' = updateProcessingStats(
           0, secondsOf(Max(Len(args.reference.data), Len(args.targets[1].data)), args.sampleRate),
           args.method, results[1].error = SUCCESS)
    /\ result' = results[1]
    /\ returnCode' = IF api = "c_process" THEN results[1].error ELSE returnCode
    /\ pc' = "done"
    /\ UNCHANGED <<callVars, engineVars, loadVars, ti, cur, stageVars, subResults, elem, results,
                   trace, batchResult>>

\* SyncEngine::processBatch after alignBatch
ReturnProcessBatch ==
    /\ pc = "return"
    /\ UNCHANGED <<concVars, unitVars>>
    /\ api = "processBatch"
    /\ LET n == Len(args.targets)
           totalAudioLength ==
               secondsOf(Len(args.reference.data), args.sampleRate)
               + SumSeq([i \in 1..n |-> secondsOf(Len(args.targets[i].data), args.sampleRate)])
           successCount == Len(SelectSeq(results, LAMBDA r : r.error = SUCCESS))
       IN  lastStats_' = updateProcessingStats(0, RDiv(totalAudioLength, n + 1), args.method,
                                               successCount > 0)
    /\ progress' = Append(progress, 1000)
    /\ batchResult' = [results |-> results, count |-> Len(results), error |-> SUCCESS]
    /\ pc' = "done"
    /\ UNCHANGED <<callVars, engineVars, loadVars, ti, cur, stageVars, subResults, elem, results,
                   trace, result, returnCode>>

Next ==
    \/ SetConfig
    \/ AlignDirect
    \/ HarmoniqSyncAlign
    \/ HarmoniqSyncAlignBatch
    \/ Process
    \/ HarmoniqSyncProcess
    \/ ProcessBatch
    \/ DispatchPrimary
    \/ DispatchHybrid
    \/ DispatchUnknown
    \/ ValidateHybrid
    \/ Validate
    \/ Extract
    \/ Correlate
    \/ Score
    \/ Fuse
    \/ Collect
    \/ ReturnAlign
    \/ ReturnAlignBatch
    \/ ReturnProcess
    \/ ReturnProcessBatch

Spec == Init /\ [][Next]_vars

\* ---------------------------------------------------------- concurrent calls
\* Two threads call alignSpectralFlux on one engine with the same reference
\* AudioProcessor and a target of their own. extractSpectralFlux(reference) runs
\* computeFFT on the reference's mutable workingBuffer and windowFunction; each
\* statement of computeFFT and applyHannWindow is one step of a worker.
ConcReference == [audioData |-> Burst(2, 2), sampleRate |-> 2]
\* target of thread 1: the reference delayed by 2 samples; of thread 2: the reference
ConcTargets ==
    <<[audioData |-> ShiftClip(Burst(2, 2), 2), sampleRate |-> 2],
      [audioData |-> Burst(2, 2), sampleRate |-> 2]>>
ConcConfigs == {convertConfig(CConfig(0, 4, 1))}

InitConc ==
    /\ pc = "concurrent"
    /\ api = "engine"
    /\ args = [NoArgs EXCEPT !.method = SPECTRAL_FLUX]
    /\ config_ = harmoniq_sync_default_config
    /\ alignmentEngine_ = convertConfig(harmoniq_sync_default_config)
    /\ lastStats_ = InitialStats
    /\ progress = <<>>
    /\ reference = ConcReference
    /\ targets = ConcTargets
    /\ engineConfig \in ConcConfigs
    /\ ti = 0
    /\ cur = SPECTRAL_FLUX
    /\ refFeatures = <<>>
    /\ targetFeatures = <<>>
    /\ correlation = <<>>
    /\ subResults = <<>>
    /\ elem = ZeroResult
    /\ results = <<>>
    /\ trace = <<>>
    /\ result = ZeroResult
    /\ batchResult = NoBatch
    /\ returnCode = SUCCESS
    /\ scratch = EmptyScratch
    /\ workers = [t \in Threads |-> [IdleWorker EXCEPT !.pc = "assign"]]
    /\ processor = EmptyProcessor
    /\ loadReturned = NotLoaded
    /\ call = NoCall
    /\ loop = NoLoop
    /\ handler = InitialHandler
    /\ clients = [t \in Threads |-> IdleClient]

seqVars == <<pc, api, args, config_, alignmentEngine_, lastStats_, progress, reference, targets,
             engineConfig, ti, cur, refFeatures, targetFeatures, correlation, subResults,
             elem, results, trace, result, batchResult, returnCode>>

\* the hop extractSpectralFlux steps by
fluxHop == IF engineConfig.hopSize <= 0 THEN engineConfig.windowSize \div 4 ELSE engineConfig.hopSize

\* another frame of the reference fits at the worker's position
frameFits(t) == workers[t].pos + engineConfig.windowSize <= Len(reference.audioData)

\* computeFFT: workingBuffer.assign(input, input + inputLength)
AssignBuffer(t) ==
    /\ workers[t].pc = "assign"
    /\ frameFits(t)
    /\ scratch' = [scratch EXCEPT
                      !.workingBuffer = frameAt(reference, workers[t].pos, engineConfig.windowSize)]
    /\ workers' = [workers EXCEPT ![t].pc = "window"]
    /\ UNCHANGED <<seqVars, unitVars>>

\* applyHannWindow: the size test, and the resize when it fails
ResizeWindow(t) ==
    /\ workers[t].pc = "window"
    /\ IF Len(scratch.windowFunction) # engineConfig.windowSize
       THEN /\ scratch' = [scratch EXCEPT
                              !.windowFunction = [i \in 1..engineConfig.windowSize |-> 0]]
            /\ workers' = [workers EXCEPT ![t].pc = "fill"]
       ELSE /\ scratch' = scratch
            /\ workers' = [workers EXCEPT ![t].pc = "apply"]
    /\ UNCHANGED <<seqVars, unitVars>>

\* applyHannWindow: the loop that computes the window
FillWindow(t) ==
    /\ workers[t].pc = "fill"
    /\ scratch' = [scratch EXCEPT !.windowFunction = hannWindow]
    /\ workers' = [workers EXCEPT ![t].pc = "apply"]
    /\ UNCHANGED <<seqVars, unitVars>>

\* applyHannWindow: the loop that multiplies the working buffer by the window
ApplyWindow(t) ==
    /\ workers[t].pc = "apply"
    /\ scratch' = [scratch EXCEPT
                      !.workingBuffer = applyWindow(scratch.workingBuffer, scratch.windowFunction)]
    /\ workers' = [workers EXCEPT ![t].pc = "dft"]
    /\ UNCHANGED <<seqVars, unitVars>>

\* the worker's locals after the DFT loop returned magnitude
afterFrame(w, magnitude) ==
    [w EXCEPT !.pc = "assign",
              !.pos = w.pos + fluxHop,
              !.spectralFlux = IF w.prevMagnitude = <<>> THEN w.spectralFlux
                               ELSE Append(w.spectralFlux, fluxBetween(magnitude, w.prevMagnitude)),
              !.prevMagnitude = magnitude]

\* computeFFT: the DFT loop over the working buffer, and the flux of the frame
ComputeDFT(t) ==
    /\ workers[t].pc = "dft"
    /\ workers' = [workers EXCEPT ![t] = afterFrame(workers[t], dftOf(scratch.workingBuffer))]
    /\ UNCHANGED <<scratch, seqVars, unitVars>>

\* the rest of alignSpectralFlux: the target's features come from the worker's own
\* AudioProcessor
FinishWorker(t) ==
    /\ workers[t].pc = "assign"
    /\ ~frameFits(t)
    /\ workers' = [workers EXCEPT
                      ![t].pc = "done",
                      ![t].result = alignFeatures(SPECTRAL_FLUX,
                                                  smoothFeatures(workers[t].spectralFlux, 3),
                                                  extractFeatures(SPECTRAL_FLUX, targets[t], engineConfig),
                                                  engineConfig)]
    /\ UNCHANGED <<scratch, seqVars, unitVars>>

NextConc ==
    \/ \E t \in Threads : AssignBuffer(t)
    \/ \E t \in Threads : ResizeWindow(t)
    \/ \E t \in Threads : FillWindow(t)
    \/ \E t \in Threads : ApplyWindow(t)
    \/ \E t \in Threads : ComputeDFT(t)
    \/ \E t \in Threads : FinishWorker(t)

SpecConc == InitConc /\ [][NextConc]_vars

\* ------------------------------------------------------ configuration calls
\* The owner of one engine changes its configuration, through the C interface or
\* through SyncEngine::setConfig, any number of times.
NextConfig ==
    \/ SetConfig
    \/ HarmoniqSyncSetEngineConfig

SpecConfig == Init /\ [][NextConfig]_vars

\* ---------------------------------------------------------- single functions
\* One function of the engine is called on arguments drawn from small sets, or one
\* AudioProcessor is loaded by its owner with one clip after another.
MaxFeatures == 3
FeatureValues == {-500, 0, 1000}
FeatureSeqs == UNION {[1..n -> FeatureValues] : n \in 0..MaxFeatures}

\* feature sequences of up to twice MaxFeatures values
SmoothInputs ==
    FeatureSeqs \cup {a \o b : a \in {<<0, 1000, -500>>, <<1000, 1000, 0>>},
                               b \in {f \in FeatureSeqs : Len(f) = MaxFeatures}}
FilterSizes == {3, 5, 7, 9}

LoadBuffers == {NullBuffer, Buffer(<<>>), Buffer(TooShort), Buffer(Burst(2, 2))}
LoadRates == {-1, 0, 2, 1000}

MaxFlux == 5
FluxSeqs == UNION {[1..n -> {0, 300, 1000}] : n \in 0..MaxFlux}
OnsetThresholds == {0, 100, 500, 1000}
DetectionWindows == {0, 1, 2, 3, 4, 5}
Pending(op, a, b, n) ==
    [op |-> op, a |-> a, b |-> b, n |-> n, status |-> "pending", out |-> <<>>]

FunctionCalls ==
    {Pending("crossCorrelate", a, b, 0) : a \in FeatureSeqs, b \in FeatureSeqs}
    \cup {Pending("smoothFeatures", a, <<>>, filterSize) : a \in SmoothInputs, filterSize \in FilterSizes}
    \cup {Pending("loadAudio", <<>>, <<>>, 0)}
    \cup {Pending("detectOnsets", a, <<lo, hi>>, windowSize) :
             a \in FluxSeqs, lo \in OnsetThresholds, hi \in OnsetThresholds,
             windowSize \in DetectionWindows}

InitFunctions ==
    /\ pc = "function"
    /\ api = "none"
    /\ args = NoArgs
    /\ config_ = harmoniq_sync_default_config
    /\ alignmentEngine_ = convertConfig(harmoniq_sync_default_config)
    /\ lastStats_ = InitialStats
    /\ progress = <<>>
    /\ reference = EmptyProcessor
    /\ targets = <<>>
    /\ engineConfig = DefaultEngineConfig
    /\ ti = 0
    /\ cur = SPECTRAL_FLUX
    /\ refFeatures = <<>>
    /\ targetFeatures = <<>>
    /\ correlation = <<>>
    /\ subResults = <<>>
    /\ elem = ZeroResult
    /\ results = <<>>
    /\ trace = <<>>
    /\ result = ZeroResult
    /\ batchResult = NoBatch
    /\ returnCode = SUCCESS
    /\ scratch = EmptyScratch
    /\ workers = [t \in Threads |-> IdleWorker]
    /\ processor = EmptyProcessor
    /\ loadReturned = NotLoaded
    /\ call \in FunctionCalls
    /\ loop = NoLoop
    /\ handler = InitialHandler
    /\ clients = [t \in Threads |-> IdleClient]

\* AlignmentEngine::crossCorrelate(a, b)
CrossCorrelate ==
    /\ call.op = "crossCorrelate"
    /\ call.status = "pending"
    /\ call' = [call EXCEPT !.status = "returned", !.out = crossCorrelate(call.a, call.b)]
    /\ UNCHANGED <<seqVars, concVars, processor, loadReturned, loop, handler, clients>>

\* what a call of smoothFeatures that reads past the end of features may do: crash, or
\* return with any values in features
undefinedSmoothing(c) ==
    {[c EXCEPT !.status = "crashed"]}
    \cup {[c EXCEPT !.status = "returned", !.out = f] :
             f \in {g \in FeatureSeqs : Len(g) = Len(c.a)}}

\* AlignmentEngine::smoothFeatures and AudioProcessor::smoothFeatures on features = a,
\* filterSize = n
SmoothFeatures ==
    /\ call.op = "smoothFeatures"
    /\ call.status = "pending"
    /\ IF smoothReads(Len(call.a), call.n) \subseteq 0..(Len(call.a) - 1)
       THEN call' = [call EXCEPT !.status = "returned", !.out = smoothFeatures(call.a, call.n)]
       ELSE call' \in undefinedSmoothing(call)
    /\ UNCHANGED <<seqVars, concVars, processor, loadReturned, loop, handler, clients>>

\* AudioProcessor::loadAudio on a processor that may hold an earlier clip
LoadAudio ==
    /\ call.op = "loadAudio"
    /\ \E buf \in LoadBuffers, inputSampleRate \in LoadRates :
        /\ processor' = loadAudio(processor, buf, inputSampleRate).proc
        /\ loadReturned' = [called |-> TRUE, ok |-> loadAudio(processor, buf, inputSampleRate).ok]
    /\ UNCHANGED <<seqVars, concVars, call, loop, handler, clients>>

\* AlignmentEngine::detectOnsets called on the spectral flux a with the detection window
\* n, once for each threshold of b
DetectOnsets ==
    /\ call.op = "detectOnsets"
    /\ call.status = "pending"
    /\ call' = [call EXCEPT !.status = "returned",
                            !.out = [k \in 1..Len(call.b) |-> detectOnsets(call.a, call.b[k], call.n)]]
    /\ UNCHANGED <<seqVars, concVars, processor, loadReturned, loop, handler, clients>>
NextFunctions ==
    \/ CrossCorrelate
    \/ SmoothFeatures
    \/ LoadAudio
    \/ DetectOnsets

SpecFunctions == InitFunctions /\ [][NextFunctions]_vars

\* -------------------------------------------------- feature extraction loops
\* One feature extraction runs its frame loop, one iteration at a time. What a frame
\* contributes is left out, the number of frames appended is counted up to MaxFrames
\* and beyond that only the parity of the iterations is kept; memory is taken to be
\* unbounded.
MaxFrames == MaxLen + 2
ExtractOps == {"extractSpectralFlux", "extractChromaFeatures", "extractEnergyProfile", "extractMFCC"}
ExtractClips == {<<>>, TooShort, Burst(2, 2)}
ExtractWindows == {-1, 0, 1, 2, 3, 4, MaxLen + 3}
ExtractHops == {-1, 0, 1, 2}

\* if (hopSize <= 0) hopSize = windowSize / 4, or windowSize / 2 for the energy profile
autoHop(op, windowSize, hopSize) ==
    IF hopSize > 0 THEN hopSize
    ELSE TruncDiv(windowSize, IF op = "extractEnergyProfile" THEN 2 ELSE 4)

\* pos + windowSize <= audioData.size(), the sum taken in size_t
inClip(pos, windowSize, size) == (pos + windowSize) % SizeModulus <= size

InitExtract ==
    /\ pc = "function"
    /\ api = "none"
    /\ args = NoArgs
    /\ config_ = harmoniq_sync_default_config
    /\ alignmentEngine_ = convertConfig(harmoniq_sync_default_config)
    /\ lastStats_ = InitialStats
    /\ progress = <<>>
    /\ reference = EmptyProcessor
    /\ targets = <<>>
    /\ engineConfig = DefaultEngineConfig
    /\ ti = 0
    /\ cur = SPECTRAL_FLUX
    /\ refFeatures = <<>>
    /\ targetFeatures = <<>>
    /\ correlation = <<>>
    /\ subResults = <<>>
    /\ elem = ZeroResult
    /\ results = <<>>
    /\ trace = <<>>
    /\ result = ZeroResult
    /\ batchResult = NoBatch
    /\ returnCode = SUCCESS
    /\ scratch = EmptyScratch
    /\ workers = [t \in Threads |-> IdleWorker]
    /\ processor = EmptyProcessor
    /\ loadReturned = NotLoaded
    /\ call \in {Pending(op, a, <<hopSize>>, windowSize) :
                    op \in ExtractOps, a \in ExtractClips,
                    hopSize \in ExtractHops, windowSize \in ExtractWindows}
    /\ loop = NoLoop
    /\ handler = InitialHandler
    /\ clients = [t \in Threads |-> IdleClient]

\* the entry of extractSpectralFlux, extractChromaFeatures, extractEnergyProfile and
\* extractMFCC on the clip a with windowSize n and hopSize b[1]
BeginExtract ==
    /\ call.op \in ExtractOps
    /\ call.status = "pending"
    /\ IF call.a = <<>>
       THEN /\ call' = [call EXCEPT !.status = "returned"]
            /\ UNCHANGED loop
       ELSE /\ call' = [call EXCEPT !.status = "looping"]
            /\ loop' = [pos |-> 0, hopSize |-> autoHop(call.op, call.n, call.b[1]),
                         frames |-> 0, odd |-> FALSE]
    /\ UNCHANGED <<seqVars, concVars, processor, loadReturned, handler, clients>>

\* one iteration of for (pos = 0; pos + windowSize <= audioData.size(); pos += hopSize)
ExtractFrame ==
    /\ call.status = "looping"
    /\ inClip(loop.pos, call.n, Len(call.a))
    /\ loop' = [loop EXCEPT !.pos = loop.pos + loop.hopSize,
                            !.frames = Min(loop.frames + 1, MaxFrames),
                            !.odd = ~loop.odd]
    /\ UNCHANGED <<seqVars, concVars, processor, loadReturned, call, handler, clients>>

\* the loop condition fails and the features are returned
EndExtract ==
    /\ call.status = "looping"
    /\ ~inClip(loop.pos, call.n, Len(call.a))
    /\ call' = [call EXCEPT !.status = "returned"]
    /\ UNCHANGED <<seqVars, concVars, processor, loadReturned, loop, handler, clients>>

NextExtract ==
    \/ BeginExtract
    \/ ExtractFrame
    \/ EndExtract

\* a call that can take a step takes one
SpecExtract == InitExtract /\ [][NextExtract]_vars /\ WF_vars(NextExtract)
\* ---------------------------------------------------------- ErrorHandler
\* Threads call logError, getRecentErrors and setMinimumSeverity of the static
\* ErrorHandler. errorMutex_ is 0 when free and the holder's number otherwise. An entry
\* of the log is the number of its push_back, counted in logged. An access to
\* minimumSeverity_ is made outside the mutex and takes two steps; accessing holds the
\* accesses under way and raced records that two of them, one a write, overlapped.
LogCapacity == 3
MaxLogged == 5
Severities == {SeverityTrace, SeverityInfo, SeverityError}
MaxCounts == {0, 2, LogCapacity + 1}

InitHandler ==
    /\ pc = "function"
    /\ api = "none"
    /\ args = NoArgs
    /\ config_ = harmoniq_sync_default_config
    /\ alignmentEngine_ = convertConfig(harmoniq_sync_default_config)
    /\ lastStats_ = InitialStats
    /\ progress = <<>>
    /\ reference = EmptyProcessor
    /\ targets = <<>>
    /\ engineConfig = DefaultEngineConfig
    /\ ti = 0
    /\ cur = SPECTRAL_FLUX
    /\ refFeatures = <<>>
    /\ targetFeatures = <<>>
    /\ correlation = <<>>
    /\ subResults = <<>>
    /\ elem = ZeroResult
    /\ results = <<>>
    /\ trace = <<>>
    /\ result = ZeroResult
    /\ batchResult = NoBatch
    /\ returnCode = SUCCESS
    /\ scratch = EmptyScratch
    /\ workers = [t \in Threads |-> IdleWorker]
    /\ processor = EmptyProcessor
    /\ loadReturned = NotLoaded
    /\ call = NoCall
    /\ loop = NoLoop
    /\ handler = InitialHandler
    /\ clients = [t \in Threads |-> IdleClient]

handlerRest == <<seqVars, concVars, processor, loadReturned, call, loop>>

\* an access by another thread that conflicts with an access of the given kind
conflicting(t, kind) ==
    \E a \in handler.accessing : a[1] # t /\ (kind = "write" \/ a[2] = "write")

\* the value a finished access finds in minimumSeverity_: any value once accesses raced
severityRead == IF handler.raced THEN Severities ELSE {handler.minimumSeverity_}

\* logError, entry: the read of minimumSeverity_ begins
LogErrorBegin(t) ==
    /\ clients[t].pc = "idle"
    /\ handler.logged < MaxLogged
    /\ \E severity \in Severities :
        clients' = [clients EXCEPT ![t] = [pc |-> "log_check", severity |-> severity, out |-> <<>>]]
    /\ handler' = [handler EXCEPT !.accessing = @ \cup {<<t, "read">>},
                                  !.raced = @ \/ conflicting(t, "read")]
    /\ UNCHANGED handlerRest

\* if (context.severity < minimumSeverity_) return
LogErrorCheck(t) ==
    /\ clients[t].pc = "log_check"
    /\ \E minimum \in severityRead :
        clients' = [clients EXCEPT ![t].pc = IF clients[t].severity < minimum THEN "idle" ELSE "log_lock"]
    /\ handler' = [handler EXCEPT !.accessing = @ \ {<<t, "read">>}]
    /\ UNCHANGED handlerRest

\* std::lock_guard<std::mutex> lock(errorMutex_) of logError and getRecentErrors
Lock(t) ==
    /\ clients[t].pc \in {"log_lock", "callbacks_lock", "get_lock"}
    /\ handler.errorMutex_ = 0
    /\ handler' = [handler EXCEPT !.errorMutex_ = t]
    /\ clients' = [clients EXCEPT ![t].pc =
                      CASE clients[t].pc = "log_lock" -> "log_push"
                        [] clients[t].pc = "callbacks_lock" -> "callbacks_copy"
                        [] OTHER -> "get_copy"]
    /\ UNCHANGED handlerRest

\* errorLog_.push_back(context)
LogPush(t) ==
    /\ clients[t].pc = "log_push"
    /\ handler' = [handler EXCEPT !.errorLog_ = Append(@, handler.logged + 1),
                                  !.logged = @ + 1]
    /\ clients' = [clients EXCEPT ![t].pc = "log_trim"]
    /\ UNCHANGED handlerRest

\* the log as the size limit leaves it
trimmed(errorLog) == IF Len(errorLog) > LogCapacity THEN Tail(errorLog) ELSE errorLog

\* if (errorLog_.size() > 1000) errorLog_.erase(errorLog_.begin()), and the lock is released
LogTrim(t) ==
    /\ clients[t].pc = "log_trim"
    /\ handler' = [handler EXCEPT !.errorLog_ = trimmed(@), !.errorMutex_ = 0]
    /\ clients' = [clients EXCEPT ![t].pc = "callbacks_lock"]
    /\ UNCHANGED handlerRest

\* callbacks = callbacks_ under the lock; the copies are then called and logError returns
LogCallbacks(t) ==
    /\ clients[t].pc = "callbacks_copy"
    /\ handler' = [handler EXCEPT !.errorMutex_ = 0]
    /\ clients' = [clients EXCEPT ![t].pc = "idle", ![t].out = handler.callbacks_]
    /\ UNCHANGED handlerRest

\* getRecentErrors(maxCount), entry
GetRecentErrorsBegin(t) ==
    /\ clients[t].pc = "idle"
    /\ \E maxCount \in MaxCounts :
        clients' = [clients EXCEPT ![t] = [pc |-> "get_lock", severity |-> maxCount, out |-> <<>>]]
    /\ UNCHANGED <<handler, handlerRest>>

\* the last maxCount entries of the log
recentErrors(errorLog, maxCount) ==
    LET startIndex == IF Len(errorLog) > maxCount THEN Len(errorLog) - maxCount ELSE 0
    IN  [i \in 1..(Len(errorLog) - startIndex) |-> errorLog[startIndex + i]]

\* getRecentErrors copies under the lock and returns
GetRecentErrorsCopy(t) ==
    /\ clients[t].pc = "get_copy"
    /\ handler' = [handler EXCEPT !.errorMutex_ = 0]
    /\ clients' = [clients EXCEPT ![t].pc = "idle",
                                  ![t].out = recentErrors(handler.errorLog_, clients[t].severity)]
    /\ UNCHANGED handlerRest

\* setMinimumSeverity, entry: the write of minimumSeverity_ begins
SetMinimumSeverityBegin(t) ==
    /\ clients[t].pc = "idle"
    /\ \E minSeverity \in Severities :
        clients' = [clients EXCEPT ![t] = [pc |-> "set_write", severity |-> minSeverity, out |-> <<>>]]
    /\ handler' = [handler EXCEPT !.accessing = @ \cup {<<t, "write">>},
                                  !.raced = @ \/ conflicting(t, "write")]
    /\ UNCHANGED handlerRest

\* minimumSeverity_ = minSeverity: any value is left once accesses raced
SetMinimumSeverityWrite(t) ==
    /\ clients[t].pc = "set_write"
    /\ \E stored \in IF handler.raced THEN Severities ELSE {clients[t].severity} :
        handler' = [handler EXCEPT !.minimumSeverity_ = stored,
                                   !.accessing = @ \ {<<t, "write">>}]
    /\ clients' = [clients EXCEPT ![t].pc = "idle"]
    /\ UNCHANGED handlerRest

NextHandler ==
    \E t \in Threads :
        \/ LogErrorBegin(t)
        \/ LogErrorCheck(t)
        \/ Lock(t)
        \/ LogPush(t)
        \/ LogTrim(t)
        \/ LogCallbacks(t)
        \/ GetRecentErrorsBegin(t)
        \/ GetRecentErrorsCopy(t)
        \/ SetMinimumSeverityBegin(t)
        \/ SetMinimumSeverityWrite(t)

SpecHandler == InitHandler /\ [][NextHandler]_vars
\* ---------------------------------------------------------- GracefulDegradation
\* DegradationStrategy
ReduceQuality == 1
FallbackMethod == 2
ReducePrecision == 3
AdaptiveParameters == 4
Progressive == 5
UserGuided == 6

\* DegradationLevel
Minimal == 1
Moderate == 2
Significant == 3
Emergency == 4

\* "strategy_" + std::to_string(static_cast<int>(strategy))
strategyName(strategy) == <<"strategy_", strategy>>

\* a harmoniq_sync_config_t that was never assigned
UnsetConfig == CConfig(0, 0, 0)

\* DegradationResult as default-constructed; applied lists the strategies whose
\* functions shaped the result
DefaultDegradationResult ==
    [canRecover |-> FALSE, levelApplied |-> 0, strategyUsed |-> 0,
     recommendedMethod |-> SPECTRAL_FLUX, modifiedConfig |-> UnsetConfig, applied |-> {}]

\* AdaptiveParameterAdjuster::adjustForAudioQuality; quality holds the averages of the
\* two reports
adjustForAudioQuality(baseConfig, quality) ==
    LET ranged ==
            IF quality.dynamicRange < 12
            THEN [baseConfig EXCEPT !.confidence_threshold = Max(Q \div 2, @ - Q \div 10),
                                    !.noise_gate_db = Max(-50, @ - 5)]
            ELSE baseConfig
        gated ==
            IF quality.silenceRatio > (3 * Q) \div 10
            THEN [ranged EXCEPT !.noise_gate_db = Max(-55, @ - 10)]
            ELSE ranged
        window == Max(512, TruncDiv(gated.window_size, 2))
    IN  IF quality.durationSeconds < 10
        THEN [gated EXCEPT !.window_size = window, !.hop_size = TruncDiv(window, 4)]
        ELSE gated

\* AdaptiveParameterAdjuster::adjustForMemoryConstraints; memoryPressure is the ratio
\* of the estimated usage to the available memory
adjustForMemoryConstraints(baseConfig, memoryPressure) ==
    IF memoryPressure > (8 * Q) \div 10
    THEN LET window == Max(256, TruncDiv(baseConfig.window_size, 4))
         IN  [baseConfig EXCEPT !.window_size = window, !.hop_size = TruncDiv(window, 2)]
    ELSE IF memoryPressure > (6 * Q) \div 10
    THEN LET window == Max(512, TruncDiv(baseConfig.window_size, 2))
         IN  [baseConfig EXCEPT !.window_size = window, !.hop_size = TruncDiv(window, 4)]
    ELSE baseConfig

\* AdaptiveParameterAdjuster::adjustForTimeConstraints; timeRatio is estimatedTime /
\* maxProcessingTime
adjustForTimeConstraints(baseConfig, timeRatio) ==
    IF timeRatio > (15 * Q) \div 10
    THEN LET window == Max(512, TruncDiv(baseConfig.window_size, 2))
         IN  [baseConfig EXCEPT !.window_size = window,
                                !.hop_size = Max(baseConfig.hop_size * 2, TruncDiv(window, 2))]
    ELSE IF timeRatio > (11 * Q) \div 10
    THEN [baseConfig EXCEPT !.hop_size = Max(@, TruncDiv(baseConfig.window_size, 6))]
    ELSE baseConfig

\* the switch of applyReduceQuality
reduceQuality(config, level) ==
    CASE level = Minimal ->
            LET window == Max(512, TruncDiv(config.window_size, 2))
            IN  [config EXCEPT !.window_size = window, !.hop_size = TruncDiv(window, 4)]
      [] level = Moderate ->
            [config EXCEPT !.window_size = 512, !.hop_size = 128,
                           !.confidence_threshold = Max(Q \div 2, @ - Q \div 10)]
      [] level = Significant ->
            [config EXCEPT !.window_size = 256, !.hop_size = 64,
                           !.confidence_threshold = Max((4 * Q) \div 10, @ - (2 * Q) \div 10)]
      [] level = Emergency ->
            [config EXCEPT !.window_size = 256, !.hop_size = 128,
                           !.confidence_threshold = (3 * Q) \div 10]
      [] OTHER -> config

applyReduceQuality(context, level) ==
    [DefaultDegradationResult EXCEPT
        !.canRecover = TRUE, !.levelApplied = level, !.strategyUsed = ReduceQuality,
        !.modifiedConfig = reduceQuality(context.originalConfig, level),
        !.applied = {ReduceQuality}]

\* getCompatibleMethods always holds HARMONIQ_SYNC_ENERGY first, so the fallback recovers
applyFallbackMethod(context) ==
    [DefaultDegradationResult EXCEPT
        !.canRecover = TRUE, !.levelApplied = Minimal, !.strategyUsed = FallbackMethod,
        !.recommendedMethod = ENERGY, !.modifiedConfig = context.originalConfig,
        !.applied = {FallbackMethod}]

\* the switch of applyReducePrecision
reducePrecision(config, level) ==
    CASE level = Minimal ->
            [config EXCEPT !.hop_size = Max(@, TruncDiv(config.window_size, 2))]
      [] level = Moderate ->
            [config EXCEPT !.hop_size = TruncDiv(config.window_size, 2),
                           !.confidence_threshold = Max(Q \div 2, @ - Q \div 20)]
      [] level = Significant ->
            [config EXCEPT !.hop_size = config.window_size,
                           !.confidence_threshold = (4 * Q) \div 10]
      [] OTHER -> config

applyReducePrecision(context, level) ==
    [DefaultDegradationResult EXCEPT
        !.canRecover = TRUE, !.levelApplied = level, !.strategyUsed = ReducePrecision,
        !.modifiedConfig = reducePrecision(context.originalConfig, level),
        !.applied = {ReducePrecision}]

applyAdaptiveParameters(context) ==
    [DefaultDegradationResult EXCEPT
        !.canRecover = TRUE, !.levelApplied = Minimal, !.strategyUsed = AdaptiveParameters,
        !.modifiedConfig = adjustForAudioQuality(context.originalConfig, context.quality),
        !.applied = {AdaptiveParameters}]

\* applyDegradationStrategy for the four strategies that do not recurse
applySimpleStrategy(strategy, level, context) ==
    CASE strategy = ReduceQuality -> applyReduceQuality(context, level)
      [] strategy = FallbackMethod -> applyFallbackMethod(context)
      [] strategy = ReducePrecision -> applyReducePrecision(context, level)
      [] strategy = AdaptiveParameters -> applyAdaptiveParameters(context)
      [] OTHER -> DefaultDegradationResult

RECURSIVE progressiveFrom(_, _, _)
\* the loop of applyProgressive from strategy number i of its list
progressiveFrom(strategies, i, context) ==
    IF i > Len(strategies) THEN DefaultDegradationResult
    ELSE LET attemptResult == applySimpleStrategy(strategies[i], Minimal, context)
         IN  IF attemptResult.canRecover
             THEN [attemptResult EXCEPT !.strategyUsed = Progressive,
                                        !.applied = @ \cup {Progressive}]
             ELSE progressiveFrom(strategies, i + 1, context)

applyProgressive(context) ==
    progressiveFrom(<<AdaptiveParameters, ReducePrecision, ReduceQuality, FallbackMethod>>,
                    1, context)

applyDegradationStrategy(strategy, level, context) ==
    IF strategy = Progressive THEN applyProgressive(context)
    ELSE applySimpleStrategy(strategy, level, context)

\* the strategies attemptRecovery tries for an error, in order
strategySequence(originalError) ==
    CASE originalError = ERROR_OUT_OF_MEMORY -> <<ReduceQuality, ReducePrecision, FallbackMethod>>
      [] originalError = ERROR_PROCESSING_FAILED -> <<FallbackMethod, AdaptiveParameters, ReduceQuality>>
      [] originalError = ERROR_INSUFFICIENT_DATA -> <<AdaptiveParameters, ReduceQuality, FallbackMethod>>
      [] OTHER -> <<Progressive>>

\* the result returned when no strategy recovers
emergencyResult ==
    [DefaultDegradationResult EXCEPT !.levelApplied = Emergency, !.strategyUsed = UserGuided]

\* a strategy the context lists as attempted
attempted(context, strategy) ==
    \E k \in 1..Len(context.attemptedStrategies) :
        context.attemptedStrategies[k] = strategyName(strategy)

RECURSIVE recoverFrom(_, _, _)
\* the loop of attemptRecovery from strategy number i of the sequence
recoverFrom(sequence, i, context) ==
    IF i > Len(sequence) THEN emergencyResult
    ELSE IF attempted(context, sequence[i]) THEN recoverFrom(sequence, i + 1, context)
    ELSE LET nextLevel == Min(context.currentLevel + 1, Emergency)
             attemptResult == applyDegradationStrategy(sequence[i], nextLevel, context)
         IN  IF attemptResult.canRecover THEN attemptResult
             ELSE recoverFrom(sequence, i + 1, context)

\* GracefulDegradation::attemptRecovery
attemptRecovery(context) == recoverFrom(strategySequence(context.originalError), 1, context)
\* A caller holds a DegradationContext (call.b) and repeatedly asks for a recovery or
\* degrades the configuration directly; it records each returned strategy, and adopts
\* the returned level and configuration. call.a is the list of attempted strategies the
\* last attemptRecovery was given, call.n the number of recoveries obtained, call.out
\* the last result.
MaxRecoveries == 6
DegradationErrors == {ERROR_OUT_OF_MEMORY, ERROR_PROCESSING_FAILED, ERROR_INSUFFICIENT_DATA, ERROR_INVALID_INPUT}
DegradationLevels == 0..Emergency
InitialAttempts == {<<>>, <<strategyName(AdaptiveParameters)>>, <<strategyName(ReduceQuality)>>}
QualityReports ==
    {[dynamicRange |-> d, silenceRatio |-> s, durationSeconds |-> t] :
        d \in {6, 24}, s \in {Q \div 10, Q \div 2}, t \in {5, 60}}
DegradationConfigs ==
    {CConfig(700, 1024, 256), CConfig(700, 2048, 512), CConfig(450, 4096, 4096), CConfig(700, 1, 1)}
MemoryPressures == {Q \div 2, (7 * Q) \div 10, (9 * Q) \div 10}
TimeRatios == {Q, (12 * Q) \div 10, 2 * Q}

DegradationContexts ==
    {[originalError |-> e, currentLevel |-> l, attemptedStrategies |-> s, quality |-> q,
      originalConfig |-> c] :
        e \in DegradationErrors, l \in DegradationLevels, s \in InitialAttempts,
        q \in QualityReports, c \in DegradationConfigs}

InitDegradation ==
    /\ pc = "function"
    /\ api = "none"
    /\ args = NoArgs
    /\ config_ = harmoniq_sync_default_config
    /\ alignmentEngine_ = convertConfig(harmoniq_sync_default_config)
    /\ lastStats_ = InitialStats
    /\ progress = <<>>
    /\ reference = EmptyProcessor
    /\ targets = <<>>
    /\ engineConfig = DefaultEngineConfig
    /\ ti = 0
    /\ cur = SPECTRAL_FLUX
    /\ refFeatures = <<>>
    /\ targetFeatures = <<>>
    /\ correlation = <<>>
    /\ subResults = <<>>
    /\ elem = ZeroResult
    /\ results = <<>>
    /\ trace = <<>>
    /\ result = ZeroResult
    /\ batchResult = NoBatch
    /\ returnCode = SUCCESS
    /\ scratch = EmptyScratch
    /\ workers = [t \in Threads |-> IdleWorker]
    /\ processor = EmptyProcessor
    /\ loadReturned = NotLoaded
    /\ call \in {Pending("degradation", context.attemptedStrategies, context, 0) :
                    context \in DegradationContexts}
    /\ loop = NoLoop
    /\ handler = InitialHandler
    /\ clients = [t \in Threads |-> IdleClient]

degradationRest == <<seqVars, concVars, processor, loadReturned, loop, handler, clients>>

\* the caller can degrade further: no emergency result yet, and a configuration that
\* passes validation
degradable ==
    /\ call.op = "degradation"
    /\ call.status = "pending"
    /\ harmoniq_sync_validate_config(call.b.originalConfig) = SUCCESS

\* the caller adopts a configuration a degradation function returned
adopt(op, degradationResult) ==
    [call EXCEPT !.b.originalConfig = degradationResult.modifiedConfig,
                 !.out = <<[degradationResult EXCEPT !.applied = {}], op>>]

\* GracefulDegradation::attemptRecovery, and the caller's bookkeeping
AttemptRecovery ==
    /\ degradable
    /\ call.n < MaxRecoveries
    /\ LET recovery == attemptRecovery(call.b)
       IN  call' =
             IF recovery.canRecover
             THEN [call EXCEPT
                     !.a = call.b.attemptedStrategies,
                     !.b.attemptedStrategies = Append(@, strategyName(recovery.strategyUsed)),
                     !.b.currentLevel = recovery.levelApplied,
                     !.b.originalConfig = recovery.modifiedConfig,
                     !.n = @ + 1,
                     !.out = <<recovery, "attemptRecovery">>]
             ELSE [call EXCEPT !.a = call.b.attemptedStrategies,
                               !.status = "returned",
                               !.out = <<recovery, "attemptRecovery">>]
    /\ UNCHANGED degradationRest

ApplyReduceQuality ==
    /\ degradable
    /\ \E level \in Minimal..Emergency :
        call' = adopt("applyReduceQuality", applyReduceQuality(call.b, level))
    /\ UNCHANGED degradationRest

ApplyReducePrecision ==
    /\ degradable
    /\ \E level \in Minimal..Emergency :
        call' = adopt("applyReducePrecision", applyReducePrecision(call.b, level))
    /\ UNCHANGED degradationRest

AdjustForAudioQuality ==
    /\ degradable
    /\ call' = adopt("adjustForAudioQuality", applyAdaptiveParameters(call.b))
    /\ UNCHANGED degradationRest

AdjustForMemoryConstraints ==
    /\ degradable
    /\ \E memoryPressure \in MemoryPressures :
        call' = adopt("adjustForMemoryConstraints",
                      [DefaultDegradationResult EXCEPT
                          !.canRecover = TRUE,
                          !.modifiedConfig = adjustForMemoryConstraints(call.b.originalConfig,
                                                                        memoryPressure)])
    /\ UNCHANGED degradationRest

AdjustForTimeConstraints ==
    /\ degradable
    /\ \E timeRatio \in TimeRatios :
        call' = adopt("adjustForTimeConstraints",
                      [DefaultDegradationResult EXCEPT
                          !.canRecover = TRUE,
                          !.modifiedConfig = adjustForTimeConstraints(call.b.originalConfig,
                                                                      timeRatio)])
    /\ UNCHANGED degradationRest

NextDegradation ==
    \/ AttemptRecovery
    \/ ApplyReduceQuality
    \/ ApplyReducePrecision
    \/ AdjustForAudioQuality
    \/ AdjustForMemoryConstraints
    \/ AdjustForTimeConstraints

SpecDegradation == InitDegradation /\ [][NextDegradation]_vars
\* ---------------------------------------------------------- properties
Range(s) == {s[i] : i \in 1..Len(s)}

\* the caller's result was written: harmoniq_sync_process leaves it alone on its own
\* early exits
resultWritten ==
    api \in {"engine", "align", "process"} \/ (api = "c_process" /\ progress # <<>>)

\* the results the finished call handed to its caller
returnedResults ==
    IF pc # "done" THEN {}
    ELSE IF api \in {"align_batch", "processBatch"} THEN Range(batchResult.results)
    ELSE IF resultWritten THEN {result}
    ELSE {}

\* the confidence threshold the running call was configured with
configuredThreshold ==
    IF api \in {"process", "c_process", "processBatch"} THEN config_.confidence_threshold
    ELSE IF args.config.null THEN DefaultEngineConfig.confidenceThreshold
    ELSE args.config.confidence_threshold

withinContract(r) ==
    r.error = SUCCESS
        => 0 <= r.confidence /\ r.confidence <= Q /\ r.confidence >= configuredThreshold

hasSignal(buf) == \E i \in 1..Len(buf.data) : buf.data[i] # 0

\* harmoniq_sync_align returned from a call with a known method, a positive sample
\* rate, an explicit configuration with a positive threshold and hop, and two clips
\* that carry signal and hold at least one analysis window
alignedClips ==
    /\ pc = "done"
    /\ api = "align"
    /\ args.method \in PrimaryMethods \cup {HYBRID}
    /\ args.sampleRate > 0
    /\ ~args.config.null
    /\ args.config.confidence_threshold > 0
    /\ args.config.hop_size > 0
    /\ hasSignal(args.reference)
    /\ hasSignal(args.targets[1])
    /\ Len(args.reference.data) >= args.config.window_size
    /\ Len(args.targets[1].data) >= args.config.window_size

\* the clip was aligned against itself and meets the method's minimum length
selfAligned ==
    /\ alignedClips
    /\ args.targets[1] = args.reference
    /\ Len(args.reference.data) >= harmoniq_sync_min_audio_length(args.method, args.sampleRate)

\* C2, the offset it promises: a self-alignment that returns SUCCESS with
\* confidence > 0.9 has |offset_samples| <= hop_size
C2_SelfAlignmentOffset ==
    (selfAligned /\ result.error = SUCCESS /\ result.confidence > (9 * Q) \div 10)
        => Abs(result.offset_samples) <= args.config.hop_size

\* the target is the reference delayed by k samples, k a positive multiple of the hop
\* within the automatic maximum offset
shiftedBy(k) ==
    /\ alignedClips
    /\ args.targets[1].data = ShiftClip(args.reference.data, k)
    /\ k % args.config.hop_size = 0
    /\ k <= calculateMaxOffset(createEngineConfig(args.config), Len(args.reference.data),
                               Len(args.targets[1].data))

\* C3: when the target is the reference shifted by k samples, the returned
\* offset_samples equals k to within hop_size
C3_ShiftRecovered ==
    \A k \in 1..MaxLen :
        (shiftedBy(k) /\ result.error = SUCCESS)
            => Abs(result.offset_samples - k) <= args.config.hop_size

negates(r, swapped, hop) ==
    (r.error = SUCCESS /\ swapped.error = SUCCESS)
        => Abs(r.offset_samples + swapped.offset_samples) <= hop

\* C4: when align(x, y) and align(y, x) both succeed, their offsets are negatives of
\* each other to within hop_size
C4_SwapNegatesOffset ==
    alignedClips
        => negates(result,
                   harmoniq_sync_align(args.targets[1], args.reference, args.sampleRate,
                                       args.method, args.config),
                   args.config.hop_size)

\* the stages the call of primary method m went through, for the target being aligned
stagesOf(m) == SelectSeq(trace, LAMBDA e : e.method = m)

StageOrder == <<"Validate", "Extract", "Correlate", "Score">>

errorsOfStage(stage) ==
    CASE stage = "Validate" ->
            {ERROR_INVALID_INPUT, ERROR_INSUFFICIENT_DATA, ERROR_UNSUPPORTED_FORMAT}
      [] stage = "Extract" -> {ERROR_INSUFFICIENT_DATA}
      [] OTHER -> {ERROR_PROCESSING_FAILED}

\* the stages come in order, a failing stage is the last one and fails with its kind
orderly(s) ==
    /\ Len(s) <= Len(StageOrder)
    /\ \A i \in 1..Len(s) :
        /\ s[i].stage = StageOrder[i]
        /\ s[i].error # SUCCESS => i = Len(s) /\ s[i].error \in errorsOfStage(s[i].stage)

\* the call that went through s returned r: the outcome of its last stage, and
\* SUCCESS only after all four
endsWith(s, r) ==
    /\ Len(s) > 0
    /\ s[Len(s)].error = r.error
    /\ r.error = SUCCESS => Len(s) = Len(StageOrder)

\* alignHybrid has validated the target being aligned and runs the primary methods
hybridRunning ==
    /\ args.method = HYBRID
    /\ Len(trace) > 0
    /\ trace[1].method = HYBRID
    /\ trace[1].error = SUCCESS

batchReturned(name) ==
    /\ pc = "done"
    /\ api = name
    /\ args.method \in PrimaryMethods \cup {HYBRID}
    /\ ~args.targetsNull
    /\ ~args.reference.null
    /\ Len(args.reference.data) > 0

\* C6: a batch call with N targets returns N results in target order, result i being
\* what the single call of the same interface returns on (reference, target i)
C6_BatchIsMap ==
    /\ batchReturned("align_batch") =>
          /\ batchResult.count = Len(args.targets)
          /\ Len(batchResult.results) = Len(args.targets)
          /\ \A i \in 1..Len(batchResult.results) :
                batchResult.results[i]
                    = harmoniq_sync_align(args.reference, args.targets[i], args.sampleRate,
                                          args.method, args.config)
    /\ batchReturned("processBatch") =>
          /\ batchResult.count = Len(args.targets)
          /\ Len(batchResult.results) = Len(args.targets)
          /\ \A i \in 1..Len(batchResult.results) :
                batchResult.results[i]
                    = process(args.reference, args.targets[i], args.sampleRate, args.method,
                              alignmentEngine_)

\* C7: each of the concurrent calls returns what the same call returns when run alone
C7_ConcurrentCallsAsAlone ==
    \A t \in Threads :
        workers[t].pc = "done"
            => workers[t].result = alignSingle(SPECTRAL_FLUX, reference, targets[t], engineConfig)


successesOf(rs) == SelectSeq(rs, LAMBDA r : r.error = SUCCESS)
totalConfidence(rs) == SumSeq([i \in 1..Len(rs) |-> rs[i].confidence])

\* alignHybrid has fused the four primary results of the target being aligned
hybridFused == hybridRunning /\ pc = "collect" /\ Len(subResults) = 4

\* C8 as stated: hybrid returns PROCESSING_FAILED exactly when no primary method
\* succeeded, and a combined SUCCESS whenever one did
C8_HybridFailsIffNoneSucceeded ==
    hybridFused
        => /\ elem.method = "Hybrid"
           /\ elem.error = ERROR_PROCESSING_FAILED <=> Len(successesOf(subResults)) = 0
           /\ Len(successesOf(subResults)) > 0 => elem.error = SUCCESS

\* C8 amended: hybrid returns PROCESSING_FAILED exactly when no primary method
\* succeeded or the confidences of those that did sum to zero, and a combined SUCCESS
\* otherwise; both carry the tag "Hybrid"
C8_HybridFailsIffNoWeight ==
    hybridFused
        => /\ elem.method = "Hybrid"
           /\ elem.error = ERROR_PROCESSING_FAILED
                <=> (Len(successesOf(subResults)) = 0
                     \/ totalConfidence(successesOf(subResults)) = 0)
           /\ elem.error # ERROR_PROCESSING_FAILED => elem.error = SUCCESS

\* primary methods succeeded with confidence 0 and hybrid returned PROCESSING_FAILED
C8_SucceededWithoutWeight ==
    /\ hybridFused
    /\ Len(successesOf(subResults)) > 0
    /\ totalConfidence(successesOf(subResults)) = 0
    /\ elem.error = ERROR_PROCESSING_FAILED

zeroed(r) ==
    /\ r.offset_samples = 0
    /\ r.confidence = 0
    /\ r.peak_correlation = 0
    /\ r.secondary_peak_ratio = 0
    /\ r.snr_estimate = 0
    /\ r.noise_floor_db = -60 * Q

\* C9: every returned result with error # SUCCESS has offset, confidence, peak
\* correlation, secondary peak ratio and SNR equal to 0 and a noise floor of -60 dB
C9_ErrorResultsZeroed ==
    \A r \in returnedResults : r.error # SUCCESS => zeroed(r)

\* C10: every returned error result of a call with a known method carries the tag of
\* that method
C10_ErrorCarriesMethodTag ==
    args.method \in PrimaryMethods \cup {HYBRID}
        => \A r \in returnedResults : r.error # SUCCESS => r.method = methodTag(args.method)

\* the error the finished call handed to its caller: harmoniq_sync_process returns it,
\* the other single-pair entry points return it in the result
returnedError == IF api = "c_process" THEN returnCode ELSE result.error

\* a single-pair entry point has returned
pairReturned == pc = "done" /\ api \in {"engine", "align", "process", "c_process"}

\* both sample pointers of the call are non-null
nonNullClips == ~args.reference.null /\ ~args.targets[1].null

\* one of the two clips of the call has no samples
someClipEmpty == Len(args.reference.data) = 0 \/ Len(args.targets[1].data) = 0

\* a clip of the call is shorter than the minimum length of the requested method
shorterThanMinimum ==
    \/ Len(args.reference.data) < harmoniq_sync_min_audio_length(args.method, args.sampleRate)
    \/ Len(args.targets[1].data) < harmoniq_sync_min_audio_length(args.method, args.sampleRate)

\* C11: a request with a known method and a usable sample rate on two non-empty clips,
\* one of them shorter than min_audio_length(method, sample_rate), returns
\* INSUFFICIENT_DATA
C11_ShortClipInsufficientData ==
    (/\ pairReturned
     /\ api \in {"align", "process"}
     /\ args.method \in PrimaryMethods \cup {HYBRID}
     /\ nonNullClips
     /\ ~someClipEmpty
     /\ args.sampleRate > 0
     /\ args.sampleRate <= 192000
     /\ shorterThanMinimum)
        => returnedError = ERROR_INSUFFICIENT_DATA

\* C12 as stated: a call given a null or empty reference or target, or a sample
\* rate <= 0, returns INVALID_INPUT
C12_NullOrEmptyInvalidInput ==
    (pairReturned /\ (~nonNullClips \/ someClipEmpty \/ args.sampleRate <= 0))
        => returnedError = ERROR_INVALID_INPUT

\* C12 amended: harmoniq_sync_align and the engine's methods return INVALID_INPUT for a
\* null or empty clip and for a sample rate <= 0; SyncEngine::process and
\* harmoniq_sync_process return INVALID_INPUT for a null pointer and for a sample
\* rate <= 0 on non-empty clips, and INSUFFICIENT_DATA for an empty clip behind
\* non-null pointers
C12_InvalidInputPerEntryPoint ==
    /\ (pairReturned /\ api \in {"engine", "align"}
            /\ (~nonNullClips \/ someClipEmpty \/ args.sampleRate <= 0))
          => returnedError = ERROR_INVALID_INPUT
    /\ (pairReturned /\ api \in {"process", "c_process"} /\ ~nonNullClips)
          => returnedError = ERROR_INVALID_INPUT
    /\ (pairReturned /\ api \in {"process", "c_process"} /\ nonNullClips /\ ~someClipEmpty
            /\ args.sampleRate <= 0)
          => returnedError = ERROR_INVALID_INPUT
    /\ (pairReturned /\ api \in {"process", "c_process"} /\ nonNullClips /\ someClipEmpty
            /\ ~args.engineNull /\ ~args.resultNull)
          => returnedError = ERROR_INSUFFICIENT_DATA

\* SyncEngine::process rejected a null target as INVALID_INPUT although the sample rate
\* was usable and the reference held samples
C12_NullTargetRejected ==
    /\ pairReturned
    /\ api = "process"
    /\ ~args.reference.null
    /\ Len(args.reference.data) > 0
    /\ args.targets[1].null
    /\ args.sampleRate > 0
    /\ result.error = ERROR_INVALID_INPUT
    /\ result.method = "Validation"

\* the reference of the call holds samples behind a non-null pointer, the target is a
\* non-null pointer to no samples
emptyTarget ==
    /\ pairReturned
    /\ nonNullClips
    /\ Len(args.reference.data) > 0
    /\ Len(args.targets[1].data) = 0
    /\ ~args.engineNull
    /\ ~args.resultNull

\* C13 as stated: a call with non-null buffers, a valid reference and a zero-length
\* target returns INSUFFICIENT_DATA
C13_EmptyTargetInsufficientData ==
    (emptyTarget /\ args.sampleRate > 0) => returnedError = ERROR_INSUFFICIENT_DATA

\* C13 amended: SyncEngine::process and harmoniq_sync_process return INSUFFICIENT_DATA
\* for a zero-length target, whatever the sample rate; harmoniq_sync_align returns
\* INVALID_INPUT with the tag "Invalid" for it
C13_EmptyTargetPerEntryPoint ==
    /\ (emptyTarget /\ api \in {"process", "c_process"})
          => returnedError = ERROR_INSUFFICIENT_DATA
    /\ (emptyTarget /\ api = "align")
          => result.error = ERROR_INVALID_INPUT /\ result.method = "Invalid"

\* harmoniq_sync_process returned INSUFFICIENT_DATA for a zero-length target and left
\* the caller's result alone
C13_ProcessRejectedEmptyTarget ==
    /\ emptyTarget
    /\ api = "c_process"
    /\ returnCode = ERROR_INSUFFICIENT_DATA
    /\ progress = <<>>

\* an engine method returned from a call on two valid clips, each loaded at its own rate
directValid ==
    /\ pc = "done"
    /\ api = "engine"
    /\ isValid(reference)
    /\ isValid(targets[1])

\* C14: on two valid clips the engine returns UNSUPPORTED_FORMAT exactly when their
\* sample rates differ by more than 1 Hz; the entry points that load both clips at one
\* rate never return it
C14_RateMismatchUnsupported ==
    /\ directValid
          => (result.error = ERROR_UNSUPPORTED_FORMAT
                <=> Abs(reference.sampleRate - targets[1].sampleRate) > 1)
    /\ \A r \in returnedResults :
          api # "engine" => r.error # ERROR_UNSUPPORTED_FORMAT

\* two valid clips whose rates differ by 2 Hz were rejected as UNSUPPORTED_FORMAT
C14_MismatchRejected ==
    /\ directValid
    /\ Abs(reference.sampleRate - targets[1].sampleRate) = 2
    /\ result.error = ERROR_UNSUPPORTED_FORMAT

\* the stages of the running call that have been run on any target
alignmentRan == trace # <<>> \/ results # <<>>

\* C15: a harmoniq_sync_align request on two loadable clips whose configuration fails
\* harmoniq_sync_validate_config (a field out of bounds, or hop_size > window_size) or
\* whose method enum is unknown returns INVALID_INPUT and runs no stage of the alignment
C15_InvalidConfigRejected ==
    (/\ pc = "done"
     /\ api = "align"
     /\ nonNullClips
     /\ ~someClipEmpty
     /\ args.sampleRate > 0
     /\ \/ args.method \notin PrimaryMethods \cup {HYBRID}
        \/ (~args.config.null /\ harmoniq_sync_validate_config(args.config) # SUCCESS))
        => result.error = ERROR_INVALID_INPUT /\ ~alignmentRan

\* crossCorrelate has returned from a call on two non-empty sequences
correlated2 ==
    /\ call.op = "crossCorrelate"
    /\ call.status = "returned"
    /\ call.a # <<>>
    /\ call.b # <<>>

\* mean of a[i] * b[i + lag] over the positions i (1-based) where both exist
lagMean(a, b, lag) ==
    LET overlap == {i \in 1..Len(a) : i + lag \in 1..Len(b)}
        products == [i \in 1..Len(a) |-> IF i \in overlap THEN FMul(a[i], b[i + lag]) ELSE 0]
    IN  IF overlap = {} THEN 0 ELSE RDiv(SumSeq(products), Cardinality(overlap))

\* C16: for non-empty a and b, crossCorrelate returns 2 * min(|a|, |b|) - 1 values, the
\* value at index k being the correlation at the signed lag k - (min(|a|, |b|) - 1)
C16_CorrelationLengthAndLag ==
    correlated2
        => /\ Len(call.out) = 2 * Min(Len(call.a), Len(call.b)) - 1
           /\ \A k \in 0..(Len(call.out) - 1) :
                 call.out[k + 1]
                     = lagMean(call.a, call.b, k - (Min(Len(call.a), Len(call.b)) - 1))

\* two sequences of different lengths were correlated and the largest value came out
\* at a negative lag
C16_PeakAtNegativeLag ==
    /\ correlated2
    /\ Len(call.a) # Len(call.b)
    /\ maxElementIndex(call.out) < Min(Len(call.a), Len(call.b)) - 1
    /\ call.out[maxElementIndex(call.out) + 1] > 0

\* a number of the model that stands for a finite double: neither the stand-in for
\* -infinity nor beyond the largest sentinel
finite(x) == x > NegInfinity /\ x <= Sentinel1e10

C18_ValidConfigIsStored ==
    [][HarmoniqSyncSetEngineConfig
          => ((~args'.engineNull /\ harmoniq_sync_validate_config(args'.config) = SUCCESS)
                 => /\ returnCode' = SUCCESS
                    /\ harmoniq_sync_get_engine_config(FALSE, config_') = args'.config)]_vars

\* C19: after a loadAudio call that returned false the container is not valid and holds
\* no samples, whatever loads came before
C19_FailedLoadLeavesEmpty ==
    (loadReturned.called /\ ~loadReturned.ok)
        => (~isValid(processor) /\ getLength(processor) = 0)

\* smoothFeatures has been called and the call is over
smoothed ==
    /\ call.op = "smoothFeatures"
    /\ call.status # "pending"

\* the median of the filterSize values around position i (1-based) of features
windowMedian(features, i, filterSize) ==
    sortAscending(SubSeq(features, i - filterSize \div 2, i + filterSize \div 2))[filterSize \div 2 + 1]

\* C20: for every length of the sequence and every odd filter size S >= 3 the median
\* filter reads only indices inside the sequence, replaces each interior sample by the
\* median of its window of original values and leaves the outer S / 2 samples alone
C20_MedianFilterInRange ==
    smoothed
        => /\ smoothReads(Len(call.a), call.n) \subseteq 0..(Len(call.a) - 1)
           /\ call.status = "returned"
           /\ Len(call.out) = Len(call.a)
           /\ \A i \in 1..Len(call.a) :
                 call.out[i]
                     = IF i > call.n \div 2 /\ i + call.n \div 2 <= Len(call.a)
                       THEN windowMedian(call.a, i, call.n)
                       ELSE call.a[i]

\* detectOnsets has returned the onsets for the two thresholds of the call
onsetsDetected ==
    /\ call.op = "detectOnsets"
    /\ call.status = "returned"

\* C21: on the same spectral flux and detection window, the lower of two thresholds
\* gives at least as many onsets as the higher
C21_LowerThresholdMoreOnsets ==
    (onsetsDetected /\ call.b[1] <= call.b[2])
        => Len(call.out[1]) >= Len(call.out[2])

\* the lower threshold found strictly more onsets, two of them at least, and the
\* higher one still found some
C21_ThresholdChangedOnsets ==
    /\ onsetsDetected
    /\ call.b[1] < call.b[2]
    /\ Len(call.out[2]) >= 1
    /\ Len(call.out[1]) > Len(call.out[2])

\* C22: harmoniq_sync_set_engine_config called on an engine with a configuration that
\* fails harmoniq_sync_validate_config returns INVALID_INPUT and leaves the stored
\* configuration as it was, so that the stored configuration always passes validation
C22_InvalidConfigNotStored ==
    [][HarmoniqSyncSetEngineConfig
          => ((~args'.engineNull /\ harmoniq_sync_validate_config(args'.config) # SUCCESS)
                 => /\ returnCode' = ERROR_INVALID_INPUT
                    /\ config_' = config_
                    /\ harmoniq_sync_validate_config(config_') = SUCCESS)]_vars

\* C23: every feature extraction, whatever the window size, the hop size and the
\* length of the clip, returns
C23_ExtractionReturns == <>(call.status = "returned")

\* the extraction function a primary method calls
extractOp(method) ==
    CASE method = SPECTRAL_FLUX -> "extractSpectralFlux"
      [] method = CHROMA -> "extractChromaFeatures"
      [] method = ENERGY -> "extractEnergyProfile"
      [] OTHER -> "extractMFCC"

\* the hop size the extraction of a primary method advances by
extractionHop(method, config) == autoHop(extractOp(method), config.windowSize, config.hopSize)

\* C24: an alignment by a primary method that returns SUCCESS converted its peak index
\* with the hop size its feature extraction advanced by, a configured hop size of 0
\* (automatic) included
C24_OffsetHopIsExtractionHop ==
    (pc = "done" /\ api = "align" /\ args.method \in PrimaryMethods /\ result.error = SUCCESS)
        => offsetHop(engineConfig) = extractionHop(args.method, engineConfig)

\* C25: when harmoniq_sync_process returns and was given a result record, the error
\* field of the record equals the returned code, the early returns included
C25_ResultErrorIsReturnCode ==
    (pc = "done" /\ api = "c_process" /\ ~args.resultNull) => result.error = returnCode

\* SyncEngine::process or processBatch has returned
engineCallReturned == pc = "done" /\ api \in {"process", "processBatch"}

\* C26: the progress values of a process or processBatch call that has returned start
\* at 0.0, never decrease and end with 1.0
C26_ProgressFromZeroToOne ==
    engineCallReturned
        => /\ progress # <<>>
           /\ progress[1] = 0
           /\ \A i \in 1..(Len(progress) - 1) : progress[i] <= progress[i + 1]
           /\ progress[Len(progress)] = Q

\* the call produced a SUCCESS result: the result of process, some result of processBatch
producedSuccess ==
    IF api = "processBatch" THEN \E i \in 1..Len(batchResult.results) : batchResult.results[i].error = SUCCESS
    ELSE result.error = SUCCESS

\* C27: after process or processBatch has returned, the last processing statistics name
\* the requested method and are successful exactly when the call produced a SUCCESS result
C27_StatsDescribeTheCall ==
    engineCallReturned
        => /\ lastStats_.methodUsed = args.method
           /\ lastStats_.successful <=> producedSuccess

\* no thread is inside a critical section of errorMutex_
unlocked == handler.errorMutex_ = 0

\* the log holds at most LogCapacity entries
logBounded == Len(handler.errorLog_) <= LogCapacity

\* the log holds the entries pushed last, in the order of their push_back
logMostRecentInOrder ==
    LET n == Len(handler.errorLog_)
    IN  handler.errorLog_ = [i \in 1..n |-> handler.logged - n + i]

\* no two accesses to shared handler state, one of them a write, overlapped
raceFree == ~handler.raced

\* C28: under every interleaving of logError, getRecentErrors and setMinimumSeverity
\* the log, seen outside the critical sections, holds at most LogCapacity (for 1000)
\* entries, which are the most recently logged in logging order, and no access to the
\* log, the callbacks or the minimum severity races with another
C28_LogBoundedOrderedRaceFree ==
    /\ unlocked => (logBounded /\ logMostRecentInOrder)
    /\ raceFree

\* the part of C28 about the log alone
LogBoundedAndOrdered == unlocked => (logBounded /\ logMostRecentInOrder)

\* attemptRecovery has just returned
recoveryReturned == call.op = "degradation" /\ call.out # <<>> /\ call.out[2] = "attemptRecovery"

\* C29: attemptRecovery applies no strategy that the context it was given lists as
\* attempted; a caller that records the returned strategies obtains at most as many
\* recoveries as the error's strategy sequence is long, and the refusal it then gets
\* has level Emergency and strategy UserGuided
C29_NoStrategyAppliedTwice ==
    recoveryReturned
        => /\ \A s \in call.out[1].applied : strategyName(s) \notin Range(call.a)
           /\ call.n <= Len(strategySequence(call.b.originalError))
           /\ ~call.out[1].canRecover
                => call.out[1].levelApplied = Emergency /\ call.out[1].strategyUsed = UserGuided

\* the second half of C29 alone
RecoveriesBounded ==
    recoveryReturned
        => /\ call.n <= Len(strategySequence(call.b.originalError))
           /\ ~call.out[1].canRecover
                => call.out[1].levelApplied = Emergency /\ call.out[1].strategyUsed = UserGuided

\* C30: a configuration the degradation layer returned for a configuration that passes
\* harmoniq_sync_validate_config passes it too
C30_DegradedConfigPassesValidation ==
    (call.op = "degradation" /\ call.out # <<>> /\ call.out[1].canRecover)
        => harmoniq_sync_validate_config(call.out[1].modifiedConfig) = SUCCESS

\* the staged run of a call returns what the entry point computes as a function of
\* its arguments
StagedRunMatchesFunction ==
    pc = "done" =>
        CASE api = "engine" ->
                result = alignWith(args.method, reference, targets[1], engineConfig)
          [] api = "align" ->
                result = harmoniq_sync_align(args.reference, args.targets[1], args.sampleRate,
                                             args.method, args.config)
          [] api \in {"process", "c_process"} /\ resultWritten ->
                result = process(args.reference, args.targets[1], args.sampleRate, args.method,
                                 alignmentEngine_)
          [] api \in {"align_batch", "processBatch"} /\ batchResult.count > 0 /\ ti > 0 ->
                batchResult.results = alignBatch(reference, targets, args.method, engineConfig)
          [] OTHER -> TRUE

====
